---------------------------- MODULE Spec2Model ----------------------------
(***************************************************************************)
(* Model of the QA automation tool:                                        *)
(*   - test synthesis   (src/src/lib/testGenerator.ts, generateTestCases)  *)
(*   - defect classification (src/src/lib/bugDetector.ts, detectBugs)      *)
(*   - the Jira functions (createJiraTicket, validateJiraConfig, ...)      *)
(*   - the JiraIntegration component (JiraIntegration.tsx)                 *)
(* Strings are TLA+ strings; template literals are string concatenation.   *)
(* An optional value (T | undefined) is a sequence of length 0 or 1.       *)
(***************************************************************************)
EXTENDS Integers, Sequences, FiniteSets, TLC

VARIABLES
    elements,       \* GenerateTestsConfig.elements handed to generateTestCases
    genConfig,      \* the rest of GenerateTestsConfig
    genOutcome,     \* "pending" | "resolved" | "rejected": state of the returned Promise
    testCases,      \* the TestCase[] the Promise resolved with
    bugCall,        \* arguments of a createBugFromFailedTest call, None if no call
    bug,            \* the Bug that call returned, None before it returns
    now,            \* the wall clock (Date.now()), in milliseconds
    classifyCall,   \* arguments of the detectBugs calls, None if there are none
    callsLeft,      \* how many detectBugs calls the caller still makes
    classifyReturns,\* the Bug[] each detectBugs call resolved with, in call order
    consoleLog,     \* what has been written to the console
    ticketCall,     \* arguments of a createJiraTicket call, None if no call
    ticket,         \* the JiraTicket that call resolved with, None before
    configErrors,   \* what a validateJiraConfig call returned, None before
    jiraConfig,     \* JiraIntegration: the config state
    isConnected,    \* JiraIntegration: the isConnected state
    isTesting,      \* JiraIntegration: the isTesting state
    isCreatingTicket, \* JiraIntegration: the isCreatingTicket state
    tickets,        \* JiraIntegration: the tickets state
    bugs,           \* JiraIntegration: the bugs prop, None while not mounted
    pendingTest,    \* the config of the testJiraConnection call under way
    pendingCreate,  \* the createJiraTicket call under way and what follows it
    userActions,    \* how many clicks and edits the user has made in JiraIntegration
    isLoading,      \* WebScrapingPanel: the isLoading state
    scrapeResult,   \* WebScrapingPanel: the result state, None for null
    pendingScrape,  \* the ScrapeConfig of the scrapePage call under way
    selectedFramework, \* TestCaseManager: the selectedFramework state
    isGenerating,   \* TestCaseManager: the isGenerating state
    pendingGenerate,\* the GenerateTestsConfig of the generateTestCases call under way
    isRunning,      \* BugDetectionLogs: the isRunning state
    executionLog,   \* BugDetectionLogs: the executions state
    pendingRun,     \* the testCases of the handleRunTests call under way
    reportData,     \* ReportingDashboard: the reportData last exported, None before
    appActions      \* how many clicks the user has made in the other panels

genVars == <<elements, genConfig, genOutcome, testCases>>
bugVars == <<bugCall, bug, now>>
classifyVars == <<classifyCall, callsLeft, classifyReturns, consoleLog>>
ticketVars == <<ticketCall, ticket, configErrors>>
jiraVars == <<jiraConfig, isConnected, isTesting, isCreatingTicket, tickets, bugs,
              pendingTest, pendingCreate, userActions>>
appVars == <<isLoading, scrapeResult, pendingScrape, selectedFramework, isGenerating,
             pendingGenerate, isRunning, executionLog, pendingRun, reportData, appActions>>
vars == <<genVars, bugVars, classifyVars, ticketVars, jiraVars, appVars>>

(***************************************************************************)
(* Bounds                                                                  *)
(***************************************************************************)
MaxElems == 3
MaxTick == 1        \* milliseconds the clock may advance during one call
MaxExecs == 2       \* length of the TestExecution[] handed to detectBugs
MaxUserActions == 7 \* clicks and edits made in JiraIntegration
MaxAppActions == 4  \* clicks made in the other panels of App

(***************************************************************************)
(* Optional values and JavaScript's  a || b  on strings                    *)
(***************************************************************************)
None == <<>>
Some(v) == <<v>>

\* (opt || dflt): undefined and '' are both falsy
OrElse(opt, dflt) == IF opt = None \/ opt[1] = "" THEN dflt ELSE opt[1]

\* record.attributes[key], undefined when the key is missing
GetAttr(attributes, key) ==
    IF key \in DOMAIN attributes THEN Some(attributes[key]) ELSE None

\* String.prototype.startsWith
StartsWith(s, prefix) ==
    /\ Len(s) >= Len(prefix)
    /\ SubSeq(s, 1, Len(prefix)) = prefix

(***************************************************************************)
(* Element model (scraper.ts)                                              *)
(***************************************************************************)
ElementTypes == {"button", "input", "link", "form", "select", "textarea"}

\* Candidate elements: the five the scraper returns, plus elements of the
\* remaining kinds and variants (no text, second form, other href shapes).
ElementPool ==
    { [id |-> "1", type |-> "button", selector |-> "#login-btn",
       text |-> Some("Login"), attributes |-> [id |-> "login-btn"]],
      [id |-> "2", type |-> "input", selector |-> "input[name=\"email\"]",
       text |-> None, attributes |-> [name |-> "email", type |-> "email"]],
      [id |-> "3", type |-> "input", selector |-> "input.search",
       text |-> None, attributes |-> [class |-> "search"]],
      [id |-> "4", type |-> "link", selector |-> "a[href=\"/signup\"]",
       text |-> Some("Sign Up"), attributes |-> [href |-> "/signup"]],
      [id |-> "5", type |-> "form", selector |-> "#contact-form",
       text |-> None, attributes |-> [id |-> "contact-form"]],
      [id |-> "6", type |-> "select", selector |-> "#country",
       text |-> None, attributes |-> [id |-> "country"]],
      [id |-> "7", type |-> "textarea", selector |-> "#message",
       text |-> None, attributes |-> [id |-> "message"]],
      [id |-> "8", type |-> "form", selector |-> "#search-form",
       text |-> None, attributes |-> [id |-> "search-form"]],
      [id |-> "9", type |-> "button", selector |-> ".btn",
       text |-> None, attributes |-> [class |-> "btn"]],
      [id |-> "10", type |-> "link", selector |-> "a.about",
       text |-> None, attributes |-> [href |-> "about"]],
      [id |-> "11", type |-> "link", selector |-> "a.ext",
       text |-> Some("Docs"), attributes |-> [href |-> "https://docs.example.org/"]] }

\* Element lists of a discovery run: ids are unique within the run
ElementLists ==
    UNION { { s \in [1..n -> ElementPool] :
                \A i, j \in 1..n : i # j => s[i].id # s[j].id } : n \in 0..MaxElems }

(***************************************************************************)
(* Test synthesis (testGenerator.ts)                                       *)
(***************************************************************************)
TestFramework == {"playwright", "selenium", "cypress"}

\* values a caller can pass at run time: the type's three and one outside it
FrameworkInputs == TestFramework \cup {"puppeteer"}

BaseUrls == {"https://example.com"}

\* codeMap[framework] for codeMap = {playwright, selenium, cypress}: the
\* rendered template of that framework, undefined for any other key.  A
\* rendered template is its name and the values interpolated into it, in
\* order of appearance.
CodeMap(framework, playwrightCode, seleniumCode, cypressCode) ==
    CASE framework = "playwright" -> Some(playwrightCode)
      [] framework = "selenium" -> Some(seleniumCode)
      [] framework = "cypress" -> Some(cypressCode)
      [] OTHER -> None

\* Variant of generateButtonTest: the priority of the input test is used
generateButtonTest_MediumPriority(element, framework, baseUrl, index) ==
    [ id |-> "btn-test-" \o ToString(index),
      name |-> "Button Click Test - " \o OrElse(element.text, "Button"),
      description |-> "Test clicking the " \o OrElse(element.text, "button") \o " element",
      framework |-> framework,
      code |-> None,
      elements |-> <<element.id>>,
      priority |-> "medium",
      category |-> "functional" ]

generateButtonTest(element, framework, baseUrl, index) ==
    LET selector == element.selector
        playwrightCode == [template |-> "playwright/button",
                           args |-> <<OrElse(element.text, "Button"), baseUrl, selector>>]
        seleniumCode == [template |-> "selenium/button", args |-> <<baseUrl, selector>>]
        cypressCode == [template |-> "cypress/button",
                        args |-> <<OrElse(element.text, "button"), baseUrl, selector>>]
    IN  [ id |-> "btn-test-" \o ToString(index),
          name |-> "Button Click Test - " \o OrElse(element.text, "Button"),
          description |-> "Test clicking the " \o OrElse(element.text, "button") \o " element",
          framework |-> framework,
          code |-> CodeMap(framework, playwrightCode, seleniumCode, cypressCode),
          elements |-> <<element.id>>,
          priority |-> "high",
          category |-> "functional" ]

generateInputTest(element, framework, baseUrl, index) ==
    LET selector == element.selector
        attrName == GetAttr(element.attributes, "name")
        playwrightCode == [template |-> "playwright/input",
                           args |-> <<OrElse(attrName, "Input"), baseUrl, selector, selector>>]
        seleniumCode == [template |-> "selenium/input", args |-> <<baseUrl, selector>>]
        cypressCode == [template |-> "cypress/input",
                        args |-> <<OrElse(attrName, "input"), baseUrl, selector, selector>>]
    IN  [ id |-> "input-test-" \o ToString(index),
          name |-> "Input Field Test - " \o OrElse(attrName, "Input"),
          description |-> "Test filling the " \o OrElse(attrName, "input") \o " field",
          framework |-> framework,
          code |-> CodeMap(framework, playwrightCode, seleniumCode, cypressCode),
          elements |-> <<element.id>>,
          priority |-> "medium",
          category |-> "functional" ]

\* Variant of generateNegativeInputTest: the id is the one of the positive
\* input test
generateNegativeInputTest_SameIdAsInputTest(element, framework, baseUrl, index) ==
    [generateInputTest(element, framework, baseUrl, index)
        EXCEPT !.name = "Negative Input Test - " \o OrElse(element.text, "Input")]

generateNegativeInputTest(element, framework, baseUrl, index) ==
    LET selector == element.selector
        attrName == GetAttr(element.attributes, "name")
        playwrightCode == [template |-> "playwright/input-negative",
                           args |-> <<OrElse(attrName, "Input"), baseUrl, selector>>]
        seleniumCode == [template |-> "selenium/input-negative", args |-> <<baseUrl, selector>>]
        cypressCode == [template |-> "cypress/input-negative",
                        args |-> <<OrElse(attrName, "input"), baseUrl, selector>>]
    IN  [ id |-> "negative-input-test-" \o ToString(index),
          name |-> "Negative Input Test - " \o OrElse(attrName, "Input"),
          description |-> "Test validation for empty " \o OrElse(attrName, "input") \o " field",
          framework |-> framework,
          code |-> CodeMap(framework, playwrightCode, seleniumCode, cypressCode),
          elements |-> <<element.id>>,
          priority |-> "medium",
          category |-> "functional" ]

\* href.startsWith('/') ? baseUrl + href : href
ExpectedLinkUrl(href, baseUrl) ==
    IF StartsWith(href, "/") THEN baseUrl \o href ELSE href

generateLinkTest(element, framework, baseUrl, index) ==
    LET selector == element.selector
        href == OrElse(GetAttr(element.attributes, "href"), "#")
        playwrightCode == [template |-> "playwright/link",
                           args |-> <<OrElse(element.text, "Link"), baseUrl, selector,
                                      ExpectedLinkUrl(href, baseUrl)>>]
        seleniumCode == [template |-> "selenium/link",
                         args |-> <<baseUrl, selector, ExpectedLinkUrl(href, baseUrl)>>]
        cypressCode == [template |-> "cypress/link",
                        args |-> <<OrElse(element.text, "link"), baseUrl, selector,
                                   ExpectedLinkUrl(href, baseUrl)>>]
    IN  [ id |-> "link-test-" \o ToString(index),
          name |-> "Link Navigation Test - " \o OrElse(element.text, "Link"),
          description |-> "Test navigation for " \o OrElse(element.text, "link") \o " element",
          framework |-> framework,
          code |-> CodeMap(framework, playwrightCode, seleniumCode, cypressCode),
          elements |-> <<element.id>>,
          priority |-> "low",
          category |-> "functional" ]

\* Variant of generateFormTest: the framework is hard-wired to playwright
generateFormTest_FixedFramework(element, framework, baseUrl, index) ==
    [ id |-> "form-test-" \o ToString(index),
      name |-> "Form Submission Test",
      description |-> "Test complete form submission workflow",
      framework |-> "playwright",
      code |-> Some([template |-> "playwright/form", args |-> <<baseUrl, element.selector>>]),
      elements |-> <<element.id>>,
      priority |-> "high",
      category |-> "integration" ]

generateFormTest(element, framework, baseUrl, index) ==
    LET selector == element.selector
        playwrightCode == [template |-> "playwright/form", args |-> <<baseUrl, selector>>]
        seleniumCode == [template |-> "selenium/form", args |-> <<baseUrl, selector>>]
        cypressCode == [template |-> "cypress/form", args |-> <<baseUrl, selector>>]
    IN  [ id |-> "form-test-" \o ToString(index),
          name |-> "Form Submission Test",
          description |-> "Test complete form submission workflow",
          framework |-> framework,
          code |-> CodeMap(framework, playwrightCode, seleniumCode, cypressCode),
          elements |-> <<element.id>>,
          priority |-> "high",
          category |-> "integration" ]

\* Variant of generateWorkflowTest: only the form elements are covered
generateWorkflowTest_FormsOnly(elems, framework, baseUrl) ==
    LET forms == SelectSeq(elems, LAMBDA el : el.type = "form") IN
    [ id |-> "workflow-test-1",
      name |-> "Complete User Workflow Test",
      description |-> "End-to-end test covering login, navigation, and profile access",
      framework |-> framework,
      code |-> None,
      elements |-> [i \in 1..Len(forms) |-> forms[i].id],
      priority |-> "high",
      category |-> "integration" ]

generateWorkflowTest(elems, framework, baseUrl) ==
    LET playwrightCode == [template |-> "playwright/workflow", args |-> <<baseUrl>>]
        seleniumCode == [template |-> "selenium/workflow", args |-> <<baseUrl>>]
        cypressCode == [template |-> "cypress/workflow", args |-> <<baseUrl>>]
    IN  [ id |-> "workflow-test-1",
          name |-> "Complete User Workflow Test",
          description |-> "End-to-end test covering login, navigation, and profile access",
          framework |-> framework,
          code |-> CodeMap(framework, playwrightCode, seleniumCode, cypressCode),
          elements |-> [i \in 1..Len(elems) |-> elems[i].id],
          priority |-> "high",
          category |-> "integration" ]

\* Variant of the forEach callback: includeNegativeTests is not consulted
forEachElement_AlwaysNegative(element, index, config) ==
    CASE element.type = "button" ->
           <<generateButtonTest(element, config.framework, config.baseUrl, index)>>
      [] element.type = "input" ->
           <<generateInputTest(element, config.framework, config.baseUrl, index),
             generateNegativeInputTest(element, config.framework, config.baseUrl, index)>>
      [] element.type = "link" ->
           <<generateLinkTest(element, config.framework, config.baseUrl, index)>>
      [] element.type = "form" ->
           <<generateFormTest(element, config.framework, config.baseUrl, index)>>
      [] OTHER -> <<>>

\* Variant of the forEach callback: textarea falls into the input case
forEachElement_TextareaAsInput(element, index, config) ==
    CASE element.type = "button" ->
           <<generateButtonTest(element, config.framework, config.baseUrl, index)>>
      [] element.type \in {"input", "textarea"} ->
           <<generateInputTest(element, config.framework, config.baseUrl, index)>>
           \o (IF config.includeNegativeTests
               THEN <<generateNegativeInputTest(element, config.framework, config.baseUrl, index)>>
               ELSE <<>>)
      [] element.type = "link" ->
           <<generateLinkTest(element, config.framework, config.baseUrl, index)>>
      [] element.type = "form" ->
           <<generateFormTest(element, config.framework, config.baseUrl, index)>>
      [] OTHER -> <<>>

\* the callback of config.elements.forEach: what one element pushes
forEachElement(element, index, config) ==
    CASE element.type = "button" ->
           <<generateButtonTest(element, config.framework, config.baseUrl, index)>>
      [] element.type = "input" ->
           <<generateInputTest(element, config.framework, config.baseUrl, index)>>
           \o (IF config.includeNegativeTests
               THEN <<generateNegativeInputTest(element, config.framework, config.baseUrl, index)>>
               ELSE <<>>)
      [] element.type = "link" ->
           <<generateLinkTest(element, config.framework, config.baseUrl, index)>>
      [] element.type = "form" ->
           <<generateFormTest(element, config.framework, config.baseUrl, index)>>
      [] OTHER -> <<>>

RECURSIVE Flatten(_)
Flatten(seqs) ==
    IF seqs = <<>> THEN <<>> ELSE Head(seqs) \o Flatten(Tail(seqs))

\* config.elements.filter(el => el.type === 'form')
formElements(elems) == SelectSeq(elems, LAMBDA el : el.type = "form")

\* Variant of generateTestCases: the callback numbers a test by the number
\* of tests pushed before it (testCases.length) instead of the element index
generateTestCases_IndexOfPushed(elems, config) ==
    LET pushedBefore[i \in 0..Len(elems)] ==
            IF i = 0 THEN 0
            ELSE pushedBefore[i - 1] + Len(forEachElement(elems[i], 0, config))
        pushed == Flatten([i \in 1..Len(elems) |->
                             forEachElement(elems[i], pushedBefore[i - 1], config)])
    IN  IF Len(formElements(elems)) > 0
        THEN pushed \o <<generateWorkflowTest(elems, config.framework, config.baseUrl)>>
        ELSE pushed

\* Variant of generateTestCases: the workflow test is pushed whenever the
\* filtered list has length >= 0
generateTestCases_AlwaysWorkflow(elems, config) ==
    Flatten([i \in 1..Len(elems) |-> forEachElement(elems[i], i - 1, config)])
    \o <<generateWorkflowTest(elems, config.framework, config.baseUrl)>>

\* generateTestCases(config); config.elements is passed as elems.
\* forEach hands the callback the 0-based index.
generateTestCases(elems, config) ==
    LET pushed == Flatten([i \in 1..Len(elems) |-> forEachElement(elems[i], i - 1, config)])
    IN  IF Len(formElements(elems)) > 0
        THEN pushed \o <<generateWorkflowTest(elems, config.framework, config.baseUrl)>>
        ELSE pushed

\* No generateTestCases call is under way
IdleGen ==
    /\ elements = <<>>
    /\ genConfig = [framework |-> "playwright", baseUrl |-> "https://example.com",
                    includeValidation |-> TRUE, includeNegativeTests |-> TRUE]
    /\ genOutcome = "pending"
    /\ testCases = <<>>

\* No createBugFromFailedTest call is under way
IdleBug ==
    /\ bugCall = None
    /\ bug = None

\* No detectBugs call is under way
IdleClassify ==
    /\ classifyCall = None
    /\ callsLeft = 0
    /\ classifyReturns = <<>>
    /\ consoleLog = <<>>

\* No createJiraTicket or validateJiraConfig call is under way
IdleTicket ==
    /\ ticketCall = None
    /\ ticket = None
    /\ configErrors = None

\* The JiraIntegration component is not mounted
IdleJira ==
    /\ jiraConfig = None
    /\ isConnected = FALSE
    /\ isTesting = FALSE
    /\ isCreatingTicket = FALSE
    /\ tickets = <<>>
    /\ bugs = None
    /\ pendingTest = None
    /\ pendingCreate = None
    /\ userActions = 0

\* The other panels of App are not mounted
IdleApp ==
    /\ isLoading = FALSE
    /\ scrapeResult = None
    /\ pendingScrape = None
    /\ selectedFramework = "playwright"
    /\ isGenerating = FALSE
    /\ pendingGenerate = None
    /\ isRunning = FALSE
    /\ executionLog = <<>>
    /\ pendingRun = None
    /\ reportData = None
    /\ appActions = 0

GenConfigs ==
    [ framework : FrameworkInputs,
      baseUrl : BaseUrls,
      includeValidation : BOOLEAN,
      includeNegativeTests : BOOLEAN ]

InitGen ==
    /\ elements \in ElementLists
    /\ genConfig \in GenConfigs
    /\ genOutcome = "pending"
    /\ testCases = <<>>
    /\ now = 0
    /\ IdleBug
    /\ IdleClassify
    /\ IdleTicket
    /\ IdleJira
    /\ IdleApp

\* One call of generateTestCases: the function has no throw and no rejected
\* await, so the Promise resolves with the list it built.
GenerateTestCases ==
    /\ genOutcome = "pending"
    /\ testCases' = generateTestCases(elements, genConfig)
    /\ genOutcome' = "resolved"
    /\ UNCHANGED <<appVars, elements, genConfig, bugVars, classifyVars, ticketVars, jiraVars>>

NextGen == GenerateTestCases

SpecGen == InitGen /\ [][NextGen]_vars

(***************************************************************************)
(* Defect classification (bugDetector.ts)                                  *)
(***************************************************************************)
UpperCaseLetters == "ABCDEFGHIJKLMNOPQRSTUVWXYZ"
LowerCaseLetters == "abcdefghijklmnopqrstuvwxyz"

\* the lower-case form of one character
LowerChar(c) ==
    IF \E i \in 1..Len(UpperCaseLetters) : SubSeq(UpperCaseLetters, i, i) = c
    THEN LET i == CHOOSE i \in 1..Len(UpperCaseLetters) : SubSeq(UpperCaseLetters, i, i) = c
         IN  SubSeq(LowerCaseLetters, i, i)
    ELSE c

\* String.prototype.toLowerCase
RECURSIVE ToLowerCase(_)
ToLowerCase(s) ==
    IF Len(s) = 0 THEN ""
    ELSE LowerChar(SubSeq(s, 1, 1)) \o ToLowerCase(SubSeq(s, 2, Len(s)))

\* String.prototype.includes
Includes(s, sub) ==
    \E i \in 1..(Len(s) - Len(sub) + 1) : SubSeq(s, i, i + Len(sub) - 1) = sub

\* Variant of determineBugSeverity: a text without keyword is rated trivial
determineBugSeverity_TrivialDefault(error, testPriority) ==
    IF Includes(ToLowerCase(error), "timeout") \/ Includes(ToLowerCase(error), "not found")
    THEN "critical"
    ELSE IF Includes(ToLowerCase(error), "assertion") \/ Includes(ToLowerCase(error), "expected")
         THEN (IF testPriority = "high" THEN "major" ELSE "minor")
         ELSE "trivial"

\* Variant of determineBugSeverity: the text is matched without toLowerCase
determineBugSeverity_CaseSensitive(error, testPriority) ==
    IF Includes(error, "timeout") \/ Includes(error, "not found")
    THEN "critical"
    ELSE IF Includes(error, "assertion") \/ Includes(error, "expected")
         THEN (IF testPriority = "high" THEN "major" ELSE "minor")
         ELSE "minor"

\* Variant of determineBugSeverity: the test priority is not consulted
determineBugSeverity_IgnoresPriority(error, testPriority) ==
    IF Includes(ToLowerCase(error), "timeout") \/ Includes(ToLowerCase(error), "not found")
    THEN "critical"
    ELSE IF Includes(ToLowerCase(error), "assertion") \/ Includes(ToLowerCase(error), "expected")
         THEN "major"
         ELSE "minor"

determineBugSeverity(error, testPriority) ==
    IF Includes(ToLowerCase(error), "timeout") \/ Includes(ToLowerCase(error), "not found")
    THEN "critical"
    ELSE IF Includes(ToLowerCase(error), "assertion") \/ Includes(ToLowerCase(error), "expected")
         THEN (IF testPriority = "high" THEN "major" ELSE "minor")
         ELSE "minor"

\* Variant of mapTestCategoryToBugCategory: the category is passed through
mapTestCategoryToBugCategory_PassThrough(testCategory) == testCategory

mapTestCategoryToBugCategory(testCategory) ==
    CASE testCategory = "functional" -> "functional"
      [] testCategory = "ui" -> "ui"
      [] testCategory = "integration" -> "functional"
      [] OTHER -> "functional"

\* array[0]: undefined on an empty array
FirstOf(array) == IF Len(array) = 0 THEN None ELSE Some(array[1])

\* createBugFromFailedTest(execution, testCase, config).  reads are the three
\* clock readings it takes (Date.now(), new Date(), new Date()) and random is
\* Math.random().toString(36).substr(2, 9).
createBugFromFailedTest(execution, testCase, config, reads, random) ==
    LET severity == determineBugSeverity(OrElse(execution.error, ""), testCase.priority)
    IN  [ id |-> "bug-" \o ToString(reads[1]) \o "-" \o random,
          title |-> "Test Failure: " \o testCase.name,
          description |-> "Automated test \"" \o testCase.name \o "\" failed during execution.",
          severity |-> severity,
          status |-> "open",
          category |-> mapTestCategoryToBugCategory(testCase.category),
          url |-> "https://example.com",
          element |-> FirstOf(testCase.elements),
          screenshot |-> execution.screenshot,
          steps |-> << "Navigate to the test page",
                       "Execute the automated test case",
                       "Observe the failure" >>,
          expectedResult |-> "Test should pass without errors",
          actualResult |-> OrElse(execution.error, "Test failed with unknown error"),
          testCaseId |-> Some(testCase.id),
          jiraTicket |-> None,
          createdAt |-> reads[2],
          updatedAt |-> reads[3],
          assignee |-> None,
          reporter |-> "QA Automation Tool" ]

\* Successive readings of the clock during one call that starts at t0: the
\* clock never runs backwards
\* (tick k of the MaxTick possible ones falls after ticksAfter[k] readings)
ClockReads(t0, n) ==
    { [i \in 1..n |-> t0 + Cardinality({k \in 1..MaxTick : ticksAfter[k] < i})] :
        ticksAfter \in [1..MaxTick -> 0..n] }

RandomSuffixes == {"k3f9x2a1b", "z8q1m4c7d"}

TestPriorities == {"high", "medium", "low"}
TestCategories == {"functional", "ui", "integration"}

\* Error texts of failed executions: the five of generateMockError (for
\* element "1"), the texts of the specification's scenarios, and texts that
\* vary letter case, combine keywords or only resemble them.
ErrorTexts ==
    { "Element not found: 1",
      "Timeout waiting for element to be visible",
      "Assertion failed: Expected \"Success\" but got \"Error\"",
      "Network request failed with status 500",
      "Element is not clickable at this point",
      "Timeout waiting for element",
      "Assertion failed: expected X",
      "TIMEOUT",
      "Selector NOT FOUND after assertion",
      "request timeout: expected 200",
      "ASSERTION ERROR",
      "Expected true",
      "time out, nothing found",
      "assert failed",
      "" }

\* execution.error: one of the texts, or undefined
ErrorOptions == { Some(e) : e \in ErrorTexts } \cup { None }

MockScreenshot == "https://via.placeholder.com/800x600/ff0000/ffffff?text=Test+Failed"

FailedExecutions ==
    { [ id |-> "exec-1", testCaseId |-> "tc-1", status |-> "failed", duration |-> 1000,
        error |-> e, screenshot |-> sc, timestamp |-> 0 ] :
      e \in ErrorOptions, sc \in {None, Some(MockScreenshot)} }

\* the test case the failed execution resolves to
ResolvedTestCases ==
    { [ id |-> "tc-1", name |-> "Test " \o p \o " " \o c, description |-> "",
        framework |-> "playwright", code |-> None, elements |-> els,
        priority |-> p, category |-> c ] :
      p \in TestPriorities, c \in TestCategories, els \in {<<"1">>, <<"1", "5">>} }

\* The BugDetectionConfig that BugDetectionLogs passes; visualDifference is
\* in tenths (0.1 in the source)
DefaultDetectionConfig ==
    [ enableVisualTesting |-> TRUE,
      enablePerformanceTesting |-> TRUE,
      enableAccessibilityTesting |-> TRUE,
      thresholds |-> [loadTime |-> 3000, visualDifference |-> 1, accessibilityScore |-> 90] ]

InitBug ==
    /\ bugCall \in { Some([execution |-> e, testCase |-> tc, config |-> cfg]) :
                       e \in FailedExecutions, tc \in ResolvedTestCases,
                       cfg \in {DefaultDetectionConfig} }
    /\ bug = None
    /\ now = 0
    /\ IdleGen
    /\ IdleClassify
    /\ IdleTicket
    /\ IdleJira
    /\ IdleApp

\* One call of createBugFromFailedTest, as detectBugs makes it for a failed
\* execution whose test case was found
CreateBugFromFailedTest ==
    /\ bugCall # None
    /\ bug = None
    /\ \E reads \in ClockReads(now, 3), random \in RandomSuffixes :
          /\ bug' = Some(createBugFromFailedTest(bugCall[1].execution, bugCall[1].testCase,
                                                 bugCall[1].config, reads, random))
          /\ now' = reads[3]
    /\ UNCHANGED <<appVars, bugCall, genVars, classifyVars, ticketVars, jiraVars>>

NextBug == CreateBugFromFailedTest

SpecBug == InitBug /\ [][NextBug]_vars

(***************************************************************************)
(* detectBugs (bugDetector.ts)                                             *)
(***************************************************************************)
\* testCases.find(tc => tc.id === id): the first match, undefined if none
FindTestCase(tcs, id) ==
    IF \E i \in 1..Len(tcs) : tcs[i].id = id
    THEN Some(tcs[CHOOSE i \in 1..Len(tcs) :
                    /\ tcs[i].id = id
                    /\ \A j \in 1..(i - 1) : tcs[j].id # id])
    ELSE None

\* The load time the mock performance finding reports ('6.2 seconds')
MockLoadTimeMs == 6200

\* generateMockVisualBugs(); reads are its two clock readings
generateMockVisualBugs(reads) ==
    << [ id |-> "visual-bug-1",
         title |-> "Button alignment issue on mobile",
         description |-> "Login button is misaligned on mobile devices",
         severity |-> "minor",
         status |-> "open",
         category |-> "ui",
         url |-> "https://example.com/login",
         element |-> Some("#login-btn"),
         screenshot |-> Some("https://via.placeholder.com/400x800/ffff00/000000?text=Mobile+Layout+Issue"),
         steps |-> << "Open the login page on mobile device",
                      "Observe the button alignment",
                      "Compare with desktop version" >>,
         expectedResult |-> "Button should be centered and properly aligned",
         actualResult |-> "Button appears off-center and overlaps with other elements",
         testCaseId |-> None,
         jiraTicket |-> None,
         createdAt |-> reads[1],
         updatedAt |-> reads[2],
         assignee |-> None,
         reporter |-> "Visual Testing Tool" ] >>

\* Variant of generateMockPerformanceBugs: the finding is attached to a test
\* case and rated critical
generateMockPerformanceBugs_AsTestFailure(reads) ==
    << [ id |-> "perf-bug-1",
         title |-> "Slow page load time",
         description |-> "Homepage takes more than 5 seconds to load",
         severity |-> "critical",
         status |-> "open",
         category |-> "performance",
         url |-> "https://example.com",
         element |-> None,
         screenshot |-> None,
         steps |-> << "Navigate to homepage",
                      "Measure load time",
                      "Compare with performance threshold" >>,
         expectedResult |-> "Page should load within 3 seconds",
         actualResult |-> "Page loads in 6.2 seconds",
         testCaseId |-> Some("tc-a"),
         jiraTicket |-> None,
         createdAt |-> reads[1],
         updatedAt |-> reads[2],
         assignee |-> None,
         reporter |-> "Performance Testing Tool" ] >>

\* generateMockPerformanceBugs()
generateMockPerformanceBugs(reads) ==
    << [ id |-> "perf-bug-1",
         title |-> "Slow page load time",
         description |-> "Homepage takes more than 5 seconds to load",
         severity |-> "major",
         status |-> "open",
         category |-> "performance",
         url |-> "https://example.com",
         element |-> None,
         screenshot |-> None,
         steps |-> << "Navigate to homepage",
                      "Measure load time",
                      "Compare with performance threshold" >>,
         expectedResult |-> "Page should load within 3 seconds",
         actualResult |-> "Page loads in 6.2 seconds",
         testCaseId |-> None,
         jiraTicket |-> None,
         createdAt |-> reads[1],
         updatedAt |-> reads[2],
         assignee |-> None,
         reporter |-> "Performance Testing Tool" ] >>

\* generateMockAccessibilityBugs()
generateMockAccessibilityBugs(reads) ==
    << [ id |-> "a11y-bug-1",
         title |-> "Missing alt text for images",
         description |-> "Product images are missing alternative text for screen readers",
         severity |-> "major",
         status |-> "open",
         category |-> "usability",
         url |-> "https://example.com/products",
         element |-> Some("img.product-image"),
         screenshot |-> None,
         steps |-> << "Navigate to products page",
                      "Run accessibility audit",
                      "Check image alt attributes" >>,
         expectedResult |-> "All images should have descriptive alt text",
         actualResult |-> "15 images are missing alt attributes",
         testCaseId |-> None,
         jiraTicket |-> None,
         createdAt |-> reads[1],
         updatedAt |-> reads[2],
         assignee |-> None,
         reporter |-> "Accessibility Testing Tool" ] >>

\* executions.filter(exec => exec.status === 'failed')
failedExecutions(executions) == SelectSeq(executions, LAMBDA exec : exec.status = "failed")

\* Variant of the for loop: the loop is left (break) at the first failed
\* execution whose test case is not found
RECURSIVE forFailedExecutions_Break(_, _, _, _, _)
forFailedExecutions_Break(failed, tcs, config, reads, randoms) ==
    IF failed = <<>> THEN <<>>
    ELSE LET execution == Head(failed)
             testCase == FindTestCase(tcs, execution.testCaseId)
         IN  IF testCase = None
             THEN <<>>
             ELSE <<createBugFromFailedTest(execution, testCase[1], config,
                                            SubSeq(reads, 1, 3), Head(randoms))>>
                  \o forFailedExecutions_Break(Tail(failed), tcs, config,
                                               SubSeq(reads, 4, Len(reads)), Tail(randoms))

\* The for loop of detectBugs over the failed executions: an execution whose
\* test case is not found is passed over (continue), any other one pushes
\* the bug of createBugFromFailedTest, which takes three clock readings and
\* one random suffix.
RECURSIVE forFailedExecutions(_, _, _, _, _)
forFailedExecutions(failed, tcs, config, reads, randoms) ==
    IF failed = <<>> THEN <<>>
    ELSE LET execution == Head(failed)
             testCase == FindTestCase(tcs, execution.testCaseId)
         IN  IF testCase = None
             THEN forFailedExecutions(Tail(failed), tcs, config, reads, randoms)
             ELSE <<createBugFromFailedTest(execution, testCase[1], config,
                                            SubSeq(reads, 1, 3), Head(randoms))>>
                  \o forFailedExecutions(Tail(failed), tcs, config,
                                         SubSeq(reads, 4, Len(reads)), Tail(randoms))

\* the failed executions whose test case is found
ResolvedFailures(executions, tcs) ==
    SelectSeq(failedExecutions(executions),
              LAMBDA exec : FindTestCase(tcs, exec.testCaseId) # None)

\* how many clock readings and random suffixes one detectBugs call takes
NumClockReads(executions, tcs, config) ==
    3 * Len(ResolvedFailures(executions, tcs))
    + (IF config.enableVisualTesting THEN 2 ELSE 0)
    + (IF config.enablePerformanceTesting THEN 2 ELSE 0)
    + (IF config.enableAccessibilityTesting THEN 2 ELSE 0)

NumRandoms(executions, tcs) == Len(ResolvedFailures(executions, tcs))

\* the mock bugs detectBugs appends, in the order of its three ifs
MockBugs(config, reads) ==
    LET visual == IF config.enableVisualTesting
                  THEN generateMockVisualBugs(SubSeq(reads, 1, 2)) ELSE <<>>
        afterVisual == SubSeq(reads, 2 * Len(visual) + 1, Len(reads))
        performance == IF config.enablePerformanceTesting
                       THEN generateMockPerformanceBugs(SubSeq(afterVisual, 1, 2)) ELSE <<>>
        afterPerformance == SubSeq(afterVisual, 2 * Len(performance) + 1, Len(afterVisual))
        accessibility == IF config.enableAccessibilityTesting
                         THEN generateMockAccessibilityBugs(SubSeq(afterPerformance, 1, 2))
                         ELSE <<>>
    IN  visual \o performance \o accessibility

\* Variant of detectBugs: failed executions on the same test case are
\* reported once, and the bugs of the probes come first
detectBugs_DedupProbesFirst(executions, tcs, config, reads, randoms) ==
    LET failed == failedExecutions(executions)
        firstOnly == [i \in 1..Len(failed) |->
                        IF \E j \in 1..(i - 1) : failed[j].testCaseId = failed[i].testCaseId
                        THEN <<>> ELSE <<failed[i]>>]
        kept == Flatten(firstOnly)
        fromFailures == forFailedExecutions(kept, tcs, config, reads, randoms)
    IN  MockBugs(config, SubSeq(reads, 3 * Len(fromFailures) + 1, Len(reads)))
        \o fromFailures

\* detectBugs(executions, testCases, config).  reads and randoms are the
\* clock readings and random suffixes the call takes, in order.
detectBugs(executions, tcs, config, reads, randoms) ==
    LET fromFailures == forFailedExecutions(failedExecutions(executions), tcs, config,
                                            reads, randoms)
    IN  fromFailures
        \o MockBugs(config, SubSeq(reads, 3 * Len(fromFailures) + 1, Len(reads)))

\* Test cases handed to detectBugs
TestCaseA ==
    [ id |-> "tc-a", name |-> "Button Click Test - Login", description |-> "",
      framework |-> "playwright", code |-> None, elements |-> <<"1">>,
      priority |-> "high", category |-> "functional" ]

TestCaseB ==
    [ id |-> "tc-b", name |-> "Form Submission Test", description |-> "",
      framework |-> "playwright", code |-> None, elements |-> <<"5">>,
      priority |-> "medium", category |-> "integration" ]

TestCaseLists == { <<TestCaseA, TestCaseB>> }

\* One TestExecution
Execution(tc, status, error) ==
    [ id |-> "exec", testCaseId |-> tc, status |-> status, duration |-> 1000,
      error |-> error, screenshot |-> None, timestamp |-> 0 ]

\* Failed executions of two test cases, with and without an error text, a
\* failed one of no test case, a passed and a skipped one
ExecutionPool ==
    { Execution("tc-a", "failed", None),
      Execution("tc-a", "failed", Some("Timeout")),
      Execution("tc-b", "failed", None),
      Execution("tc-unknown", "failed", Some("Timeout")),
      Execution("tc-a", "passed", None),
      Execution("tc-b", "skipped", None) }

ExecutionLists == UNION { [1..n -> ExecutionPool] : n \in 0..MaxExecs }

\* BugDetectionConfig values: every combination of flags with the thresholds
\* of BugDetectionLogs, and one with a load-time threshold above the mock
\* finding
DetectionConfigs ==
    [ enableVisualTesting : BOOLEAN,
      enablePerformanceTesting : BOOLEAN,
      enableAccessibilityTesting : BOOLEAN,
      thresholds : {DefaultDetectionConfig.thresholds} ]
    \cup { [ enableVisualTesting |-> FALSE,
             enablePerformanceTesting |-> TRUE,
             enableAccessibilityTesting |-> FALSE,
             thresholds |-> [loadTime |-> 10000, visualDifference |-> 1,
                             accessibilityScore |-> 90] ] }

InitClassify ==
    /\ classifyCall \in { Some([executions |-> ex, testCases |-> tcs, config |-> cfg]) :
                            ex \in ExecutionLists, tcs \in TestCaseLists,
                            cfg \in DetectionConfigs }
    /\ callsLeft = 1
    /\ classifyReturns = <<>>
    /\ consoleLog = <<>>
    /\ now = 0
    /\ IdleGen
    /\ IdleBug
    /\ IdleTicket
    /\ IdleJira
    /\ IdleApp

\* Inputs of a caller that classifies the same results twice
InitReclassify ==
    /\ classifyCall \in { Some([executions |-> ex, testCases |-> <<TestCaseA, TestCaseB>>,
                                config |-> cfg]) :
                            ex \in { e \in ExecutionLists : Len(e) <= 1 },
                            cfg \in { c \in DetectionConfigs :
                                        /\ c.enableVisualTesting = c.enablePerformanceTesting
                                        /\ ~c.enableAccessibilityTesting } }
    /\ callsLeft = 2
    /\ classifyReturns = <<>>
    /\ consoleLog = <<>>
    /\ now = 0
    /\ IdleGen
    /\ IdleBug
    /\ IdleTicket
    /\ IdleJira
    /\ IdleApp

\* One call of detectBugs.  The function has no throw and writes nothing to
\* the console; its Promise resolves with the list it built.
DetectBugs ==
    /\ classifyCall # None
    /\ callsLeft > 0
    /\ LET call == classifyCall[1] IN
       \E reads \in ClockReads(now, NumClockReads(call.executions, call.testCases, call.config)),
          randoms \in [1..NumRandoms(call.executions, call.testCases) -> RandomSuffixes] :
          /\ classifyReturns' = Append(classifyReturns,
                                       detectBugs(call.executions, call.testCases, call.config,
                                                  reads, randoms))
          /\ now' = IF Len(reads) = 0 THEN now ELSE reads[Len(reads)]
    /\ callsLeft' = callsLeft - 1
    /\ UNCHANGED <<appVars, classifyCall, consoleLog, genVars, bugCall, bug, ticketVars, jiraVars>>

NextClassify == DetectBugs

SpecClassify == InitClassify /\ [][NextClassify]_vars

SpecReclassify == InitReclassify /\ [][NextClassify]_vars

(***************************************************************************)
(* Jira functions (jiraIntegration.ts, lines 294-539 of bugDetector.ts)    *)
(***************************************************************************)
CharAt(s, i) == SubSeq(s, i, i)

\* whitespace as \s and String.prototype.trim see it
IsWhitespace(c) == c \in {" ", "\t", "\n", "\r", "\f"}

RECURSIVE TrimStart(_)
TrimStart(s) ==
    IF Len(s) > 0 /\ IsWhitespace(CharAt(s, 1)) THEN TrimStart(SubSeq(s, 2, Len(s))) ELSE s

RECURSIVE TrimEnd(_)
TrimEnd(s) ==
    IF Len(s) > 0 /\ IsWhitespace(CharAt(s, Len(s)))
    THEN TrimEnd(SubSeq(s, 1, Len(s) - 1)) ELSE s

\* String.prototype.trim; s and the string trimmed at its start are each
\* evaluated once
Trim(s) == CHOOSE r \in { TrimEnd(u) : u \in { TrimStart(t) : t \in {s} } } : TRUE

\* positions of the character c in s
PositionsOf(s, c) == { i \in 1..Len(s) : CharAt(s, i) = c }

Min(S) == CHOOSE x \in S : \A y \in S : x <= y

Digits == "0123456789"

IsAlpha(c) == Includes(UpperCaseLetters, c) \/ Includes(LowerCaseLetters, c)

IsSchemeChar(c) == IsAlpha(c) \/ Includes(Digits, c) \/ c \in {"+", "-", "."}

\* schemes whose URLs must have a host
SpecialSchemes == {"http", "https", "ws", "wss", "ftp"}

\* the part of rest before the first of / \ ? #, after its leading slashes
RECURSIVE SkipSlashes(_)
SkipSlashes(rest) ==
    IF Len(rest) > 0 /\ CharAt(rest, 1) \in {"/", "\\"}
    THEN SkipSlashes(SubSeq(rest, 2, Len(rest))) ELSE rest

HostOf(rest) ==
    LET r == SkipSlashes(rest)
        ends == { i \in 1..Len(r) : CharAt(r, i) \in {"/", "\\", "?", "#"} }
    IN  IF ends = {} THEN r ELSE SubSeq(r, 1, Min(ends) - 1)

\* isValidUrl: new URL(url) does not throw.  The URL parser, without a base,
\* wants a scheme (a letter, then letters, digits, + - . up to a colon);
\* for a special scheme it wants a non-empty host without a space in it.
isValidUrl(url) ==
    LET u == Trim(url)
        colons == PositionsOf(u, ":")
    IN  /\ colons # {}
        /\ LET c == Min(colons)
               scheme == ToLowerCase(SubSeq(u, 1, c - 1))
               rest == SubSeq(u, c + 1, Len(u))
           IN  /\ c > 1
               /\ IsAlpha(CharAt(u, 1))
               /\ \A i \in 1..(c - 1) : IsSchemeChar(CharAt(u, i))
               /\ scheme \in SpecialSchemes =>
                     /\ HostOf(rest) # ""
                     /\ PositionsOf(HostOf(rest), " ") = {}

\* isValidEmail: /^[^\s@]+@[^\s@]+\.[^\s@]+$/ matches: no whitespace, one @
\* with something before it, and after it a dot that has something on
\* either side
isValidEmail(email) ==
    LET ats == PositionsOf(email, "@") IN
    /\ \A i \in 1..Len(email) : ~IsWhitespace(CharAt(email, i))
    /\ Cardinality(ats) = 1
    /\ LET at == Min(ats)
           domain == SubSeq(email, at + 1, Len(email))
       IN  /\ at > 1
           /\ \E i \in PositionsOf(domain, ".") : 1 < i /\ i < Len(domain)

\* Variant of validateJiraConfig: the first error found is returned alone
validateJiraConfig_FirstErrorOnly(config) ==
    IF config.baseUrl = "" THEN <<"Base URL is required">>
    ELSE IF ~isValidUrl(config.baseUrl) THEN <<"Base URL must be a valid URL">>
    ELSE IF config.email = "" THEN <<"Email is required">>
    ELSE IF ~isValidEmail(config.email) THEN <<"Email must be a valid email address">>
    ELSE IF config.apiToken = "" THEN <<"API Token is required">>
    ELSE IF config.projectKey = "" THEN <<"Project Key is required">>
    ELSE IF config.issueType = "" THEN <<"Issue Type is required">>
    ELSE <<>>

\* validateJiraConfig(config)
validateJiraConfig(config) ==
    (IF config.baseUrl = "" THEN <<"Base URL is required">>
     ELSE IF ~isValidUrl(config.baseUrl) THEN <<"Base URL must be a valid URL">>
     ELSE <<>>)
    \o (IF config.email = "" THEN <<"Email is required">>
        ELSE IF ~isValidEmail(config.email) THEN <<"Email must be a valid email address">>
        ELSE <<>>)
    \o (IF config.apiToken = "" THEN <<"API Token is required">> ELSE <<>>)
    \o (IF config.projectKey = "" THEN <<"Project Key is required">> ELSE <<>>)
    \o (IF config.issueType = "" THEN <<"Issue Type is required">> ELSE <<>>)

\* Texts a JiraConfig field may hold
BaseUrlInputs == {"", "not a url", "https://", "https://qa.atlassian.net"}
EmailInputs == {"", "qa", "qa@example", "q a@example.com", "qa@example.com"}
ApiTokenInputs == {"", "token"}
ProjectKeyInputs == {"", "QA"}
IssueTypeInputs == {"", "Bug"}

JiraConfigs ==
    [ baseUrl : BaseUrlInputs, email : EmailInputs, apiToken : ApiTokenInputs,
      projectKey : ProjectKeyInputs, issueType : IssueTypeInputs,
      autoCreateTickets : {FALSE} ]

InitValidate ==
    /\ jiraConfig \in { Some(c) : c \in JiraConfigs }
    /\ configErrors = None
    /\ ticketCall = None
    /\ ticket = None
    /\ isConnected = FALSE
    /\ isTesting = FALSE
    /\ isCreatingTicket = FALSE
    /\ tickets = <<>>
    /\ bugs = None
    /\ pendingTest = None
    /\ pendingCreate = None
    /\ userActions = 0
    /\ now = 0
    /\ IdleGen
    /\ IdleBug
    /\ IdleClassify
    /\ IdleApp

\* One call of validateJiraConfig
ValidateJiraConfig ==
    /\ jiraConfig # None
    /\ configErrors = None
    /\ configErrors' = Some(validateJiraConfig(jiraConfig[1]))
    /\ UNCHANGED <<appVars, genVars, bugVars, classifyVars, ticketCall, ticket, jiraVars>>

NextValidate == ValidateJiraConfig

SpecValidate == InitValidate /\ [][NextValidate]_vars

\* Variant of mapBugSeverityToJiraPriority: 'trivial' has no case of its
\* own and takes the default
mapBugSeverityToJiraPriority_NoTrivialCase(severity) ==
    CASE severity = "critical" -> "Blocker"
      [] severity = "major" -> "High"
      [] severity = "minor" -> "Medium"
      [] OTHER -> "Medium"

\* mapBugSeverityToJiraPriority(severity)
mapBugSeverityToJiraPriority(severity) ==
    CASE severity = "critical" -> "Blocker"
      [] severity = "major" -> "High"
      [] severity = "minor" -> "Medium"
      [] severity = "trivial" -> "Low"
      [] OTHER -> "Medium"

\* n as a decimal numeral of at least width digits
RECURSIVE PadStart(_, _)
PadStart(text, width) == IF Len(text) >= width THEN text ELSE PadStart("0" \o text, width)

\* Date.prototype.toISOString for a time within the first minute of the epoch
toISOString(t) ==
    "1970-01-01T00:00:" \o PadStart(ToString(t \div 1000), 2)
    \o "." \o PadStart(ToString(t % 1000), 3) \o "Z"

\* steps.map((step, index) => `${index + 1}. ${step}`).join('\n')
RECURSIVE NumberedSteps(_, _)
NumberedSteps(steps, index) ==
    IF index > Len(steps) THEN ""
    ELSE ToString(index) \o ". " \o steps[index]
         \o (IF index < Len(steps) THEN "\n" ELSE "")
         \o NumberedSteps(steps, index + 1)

\* formatBugDescriptionForJira(bug)
formatBugDescriptionForJira(b) ==
    Trim("\n*Bug Description:*\n" \o b.description
         \o "\n\n*Steps to Reproduce:*\n" \o NumberedSteps(b.steps, 1)
         \o "\n\n*Expected Result:*\n" \o b.expectedResult
         \o "\n\n*Actual Result:*\n" \o b.actualResult
         \o "\n\n*Additional Information:*"
         \o "\n- URL: " \o b.url
         \o "\n- Element: " \o OrElse(b.element, "N/A")
         \o "\n- Category: " \o b.category
         \o "\n- Test Case ID: " \o OrElse(b.testCaseId, "N/A")
         \o "\n- Reporter: " \o b.reporter
         \o "\n- Created: " \o toISOString(b.createdAt)
         \o "\n\n"
         \o (IF OrElse(b.screenshot, "") # "" THEN "*Screenshot:* " \o b.screenshot[1] ELSE "")
         \o "\n  ")

\* createJiraTicket(bug, config), after its delay.  randoms are the three
\* Math.floor(Math.random() * n) values in the order they are drawn, reads
\* the two clock readings.  Nothing in the try block throws.
createJiraTicket(b, config, randoms, reads) ==
    LET priority == mapBugSeverityToJiraPriority(b.severity)
        ticketRequest ==
            [ summary |-> b.title,
              description |-> formatBugDescriptionForJira(b),
              priority |-> priority,
              issueType |-> config.issueType,
              projectKey |-> config.projectKey,
              labels |-> <<"automation", "qa-tool", b.category>> ]
    IN  [ id |-> ToString(randoms[1]),
          key |-> config.projectKey \o "-" \o ToString(randoms[2]),
          summary |-> ticketRequest.summary,
          description |-> ticketRequest.description,
          priority |-> ticketRequest.priority,
          status |-> "Open",
          assignee |-> None,
          reporter |-> config.email,
          created |-> reads[1],
          updated |-> reads[2],
          url |-> config.baseUrl \o "/browse/" \o config.projectKey \o "-"
                  \o ToString(randoms[3]) ]

\* Values of Math.floor(Math.random() * n)
RandomInts == {7, 42}

\* The config the placeholders of JiraIntegration suggest
ValidJiraConfig ==
    [ baseUrl |-> "https://qa.atlassian.net", email |-> "qa@example.com",
      apiToken |-> "token", projectKey |-> "QA", issueType |-> "Bug",
      autoCreateTickets |-> FALSE ]

\* The config JiraIntegration starts with
InitialJiraConfig ==
    [ baseUrl |-> "", email |-> "", apiToken |-> "", projectKey |-> "",
      issueType |-> "Bug", autoCreateTickets |-> FALSE ]

\* Bugs handed to createJiraTicket: the three mock bugs, a bug of a failed
\* test, one of severity trivial and one that has a ticket already
JiraBugPool ==
    LET fromTest == createBugFromFailedTest(
                        Execution("tc-a", "failed", Some("Timeout waiting for element")),
                        TestCaseA, DefaultDetectionConfig, <<0, 0, 0>>, "k3f9x2a1b")
        visual == generateMockVisualBugs(<<0, 0>>)[1]
        performance == generateMockPerformanceBugs(<<0, 0>>)[1]
    IN  { fromTest, visual, performance,
          generateMockAccessibilityBugs(<<0, 0>>)[1],
          [visual EXCEPT !.severity = "trivial"],
          [performance EXCEPT !.jiraTicket = Some("QA-7")] }

InitTicket ==
    /\ ticketCall \in { Some([bug |-> b, config |-> c]) :
                          b \in JiraBugPool,
                          c \in { ValidJiraConfig, InitialJiraConfig,
                                  [ValidJiraConfig EXCEPT !.apiToken = ""] } }
    /\ ticket = None
    /\ configErrors = None
    /\ now = 0
    /\ IdleGen
    /\ IdleBug
    /\ IdleClassify
    /\ IdleJira
    /\ IdleApp

\* One call of createJiraTicket, from the call to the resolution of its
\* Promise
CreateJiraTicket ==
    /\ ticketCall # None
    /\ ticket = None
    /\ \E randoms \in [1..3 -> RandomInts], reads \in ClockReads(now, 2) :
          /\ ticket' = Some(createJiraTicket(ticketCall[1].bug, ticketCall[1].config,
                                             randoms, reads))
          /\ now' = reads[2]
    /\ UNCHANGED <<appVars, genVars, bugCall, bug, classifyVars, ticketCall, configErrors, jiraVars>>

NextTicket == CreateJiraTicket

SpecTicket == InitTicket /\ [][NextTicket]_vars

(***************************************************************************)
(* The JiraIntegration component (JiraIntegration.tsx)                     *)
(***************************************************************************)
\* the upper-case form of one character
UpperChar(c) ==
    IF \E i \in 1..Len(LowerCaseLetters) : SubSeq(LowerCaseLetters, i, i) = c
    THEN LET i == CHOOSE i \in 1..Len(LowerCaseLetters) : SubSeq(LowerCaseLetters, i, i) = c
         IN  SubSeq(UpperCaseLetters, i, i)
    ELSE c

\* String.prototype.toUpperCase
RECURSIVE ToUpperCase(_)
ToUpperCase(s) ==
    IF Len(s) = 0 THEN ""
    ELSE UpperChar(SubSeq(s, 1, 1)) \o ToUpperCase(SubSeq(s, 2, Len(s)))

\* testJiraConnection(config), after its delay: false (with the error
\* written to the console) when baseUrl, email or apiToken is empty
testJiraConnection(config) ==
    ~(config.baseUrl = "" \/ config.email = "" \/ config.apiToken = "")

\* const isConfigValid = configErrors.length === 0
isConfigValid == validateJiraConfig(jiraConfig[1]) = <<>>

\* the bug section is rendered: bugs.length > 0 && isConnected
BugSectionShown == Len(bugs[1]) > 0 /\ isConnected

\* What the user types into the text inputs and picks in the select
TypedBaseUrls == {"", "https://qa.atlassian.net"}
TypedEmails == {"", "qa@example.com"}
TypedApiTokens == {"", "token"}
TypedProjectKeys == {"", "qa"}
PickedIssueTypes == {"Bug", "Task"}

\* The bugs prop: a bug of a failed test and the mock visual bug, or the
\* latter alone
BugsProps ==
    LET fromTest == createBugFromFailedTest(
                        Execution("tc-a", "failed", Some("Timeout waiting for element")),
                        TestCaseA, DefaultDetectionConfig, <<0, 0, 0>>, "k3f9x2a1b")
        visual == generateMockVisualBugs(<<0, 0>>)[1]
    IN  { <<fromTest, visual>>, <<visual>> }

\* The component as mounted: the useState initial values
InitJira ==
    /\ jiraConfig = Some(InitialJiraConfig)
    /\ isConnected = FALSE
    /\ isTesting = FALSE
    /\ isCreatingTicket = FALSE
    /\ tickets = <<>>
    /\ bugs \in { Some(list) : list \in BugsProps }
    /\ pendingTest = None
    /\ pendingCreate = None
    /\ userActions = 0
    /\ now = 0
    /\ IdleGen
    /\ IdleBug
    /\ IdleClassify
    /\ IdleTicket
    /\ IdleApp

\* no continuation of generateTestCases is waiting in the microtask queue:
\* it runs before any other event or timer
NoMicrotask == pendingGenerate = None

\* what every edit of the config leaves alone
EditFrame ==
    /\ NoMicrotask
    /\ userActions < MaxUserActions
    /\ userActions' = userActions + 1
    /\ UNCHANGED <<appVars, genVars, bugVars, classifyVars, ticketVars, isConnected, isTesting,
                   isCreatingTicket, tickets, bugs, pendingTest, pendingCreate>>

\* onChange of the Jira Base URL input
ChangeBaseUrl ==
    /\ \E text \in TypedBaseUrls :
          jiraConfig' = Some([jiraConfig[1] EXCEPT !.baseUrl = text])
    /\ EditFrame

\* onChange of the Email input
ChangeEmail ==
    /\ \E text \in TypedEmails :
          jiraConfig' = Some([jiraConfig[1] EXCEPT !.email = text])
    /\ EditFrame

\* onChange of the API Token input
ChangeApiToken ==
    /\ \E text \in TypedApiTokens :
          jiraConfig' = Some([jiraConfig[1] EXCEPT !.apiToken = text])
    /\ EditFrame

\* onChange of the Project Key input
ChangeProjectKey ==
    /\ \E text \in TypedProjectKeys :
          jiraConfig' = Some([jiraConfig[1] EXCEPT !.projectKey = ToUpperCase(text)])
    /\ EditFrame

\* onValueChange of the Issue Type select
ChangeIssueType ==
    /\ \E value \in PickedIssueTypes :
          jiraConfig' = Some([jiraConfig[1] EXCEPT !.issueType = value])
    /\ EditFrame

\* onCheckedChange of the Auto-create tickets switch
ChangeAutoCreateTickets ==
    /\ jiraConfig' = Some([jiraConfig[1] EXCEPT
                              !.autoCreateTickets = ~jiraConfig[1].autoCreateTickets])
    /\ EditFrame

\* Click on Test Connection (disabled while isTesting || !isConfigValid):
\* handleTestConnection up to its await
HandleTestConnection ==
    /\ NoMicrotask
    /\ userActions < MaxUserActions
    /\ ~isTesting
    /\ isConfigValid
    /\ isTesting' = TRUE
    /\ pendingTest' = jiraConfig
    /\ userActions' = userActions + 1
    /\ UNCHANGED <<appVars, genVars, bugVars, classifyVars, ticketVars, jiraConfig, isConnected,
                   isCreatingTicket, tickets, bugs, pendingCreate>>

\* Variant of TestJiraConnectionReturns: without the finally block
TestJiraConnectionReturns_NoFinally ==
    /\ NoMicrotask
    /\ pendingTest # None
    /\ isConnected' = testJiraConnection(pendingTest[1])
    /\ pendingTest' = None
    /\ UNCHANGED <<appVars, genVars, bugVars, classifyVars, ticketVars, jiraConfig,
                   isTesting, isCreatingTicket, tickets, bugs, pendingCreate, userActions>>

\* testJiraConnection resolves: the rest of handleTestConnection
TestJiraConnectionReturns ==
    /\ NoMicrotask
    /\ pendingTest # None
    /\ LET result == testJiraConnection(pendingTest[1]) IN
          /\ isConnected' = result
          /\ consoleLog' = IF result THEN consoleLog
                           ELSE Append(consoleLog, "Jira connection test failed:")
    /\ isTesting' = FALSE
    /\ pendingTest' = None
    /\ UNCHANGED <<appVars, genVars, bugVars, classifyCall, callsLeft, classifyReturns, ticketVars,
                   jiraConfig, isCreatingTicket, tickets, bugs, pendingCreate,
                   userActions>>

\* Click on the Create button of bug i (shown for a bug without jiraTicket,
\* disabled while isCreatingTicket): handleCreateTicket up to its await.
\* The call takes the config of the render the click happened in.
HandleCreateTicket ==
    /\ NoMicrotask
    /\ userActions < MaxUserActions
    /\ BugSectionShown
    /\ ~isCreatingTicket
    /\ \E i \in 1..Len(bugs[1]) :
          /\ bugs[1][i].jiraTicket = None
          /\ pendingCreate' = Some([index |-> i, config |-> jiraConfig[1], rest |-> <<>>,
                                  detached |-> None])
    /\ isCreatingTicket' = TRUE
    /\ userActions' = userActions + 1
    /\ UNCHANGED <<appVars, genVars, bugVars, classifyVars, ticketVars, jiraConfig, isConnected,
                   isTesting, tickets, bugs, pendingTest>>

\* the indices i in from..Len(list) of the bugs without jiraTicket, in order
RECURSIVE bugsWithoutTickets(_, _)
bugsWithoutTickets(list, from) ==
    IF from > Len(list) THEN <<>>
    ELSE (IF list[from].jiraTicket = None THEN <<from>> ELSE <<>>)
         \o bugsWithoutTickets(list, from + 1)

\* Click on Create All Tickets (disabled while isCreatingTicket):
\* handleBulkCreateTickets up to the await of its first handleCreateTicket
HandleBulkCreateTickets ==
    /\ NoMicrotask
    /\ userActions < MaxUserActions
    /\ BugSectionShown
    /\ ~isCreatingTicket
    /\ LET queue == bugsWithoutTickets(bugs[1], 1) IN
          IF queue = <<>>
          THEN UNCHANGED <<pendingCreate, isCreatingTicket>>
          ELSE /\ pendingCreate' = Some([index |-> Head(queue), config |-> jiraConfig[1],
                                         rest |-> Tail(queue), detached |-> None])
               /\ isCreatingTicket' = TRUE
    /\ userActions' = userActions + 1
    /\ UNCHANGED <<appVars, genVars, bugVars, classifyVars, ticketVars, jiraConfig, isConnected,
                   isTesting, tickets, bugs, pendingTest>>

\* createJiraTicket resolves, having drawn randoms and read the clock as
\* reads: the rest of handleCreateTicket (the ticket is appended,
\* bug.jiraTicket is assigned, isCreatingTicket is cleared) and, within
\* handleBulkCreateTickets, the start of the next handleCreateTicket before
\* anything is rendered.  The bug is the object the click took from the
\* bugs array of its render: bugs[1], or call.detached once App has been
\* handed another array.
CreateJiraTicketResolves(randoms, reads) ==
    /\ NoMicrotask
    /\ pendingCreate # None
    /\ LET call == pendingCreate[1]
           array == IF call.detached = None THEN bugs[1] ELSE call.detached[1]
           created == createJiraTicket(array[call.index], call.config, randoms, reads)
           assigned == [array EXCEPT ![call.index].jiraTicket = Some(created.key)]
       IN  /\ tickets' = Append(tickets, created)
           /\ bugs' = IF call.detached = None THEN Some(assigned) ELSE bugs
           /\ now' = reads[2]
           /\ IF call.rest = <<>>
              THEN /\ pendingCreate' = None
                   /\ isCreatingTicket' = FALSE
              ELSE /\ pendingCreate' =
                         Some([call EXCEPT !.index = Head(call.rest),
                                           !.rest = Tail(call.rest),
                                           !.detached = IF call.detached = None THEN None
                                                        ELSE Some(assigned)])
                   /\ isCreatingTicket' = TRUE
    /\ UNCHANGED <<appVars, genVars, bugCall, bug, classifyVars, ticketVars, jiraConfig,
                   isConnected, isTesting, pendingTest, userActions>>

CreateJiraTicketReturns ==
    \E randoms \in [1..3 -> RandomInts], reads \in ClockReads(now, 2) :
        CreateJiraTicketResolves(randoms, reads)

NextJira ==
    \/ ChangeBaseUrl
    \/ ChangeEmail
    \/ ChangeApiToken
    \/ ChangeProjectKey
    \/ ChangeIssueType
    \/ ChangeAutoCreateTickets
    \/ HandleTestConnection
    \/ TestJiraConnectionReturns
    \/ HandleCreateTicket
    \/ HandleBulkCreateTickets
    \/ CreateJiraTicketReturns

SpecJira == InitJira /\ [][NextJira]_vars

\* Variant of CreateJiraTicketRejects: the catch block drops the bug
CreateJiraTicketRejects_DropsBug ==
    /\ pendingCreate # None
    /\ LET call == pendingCreate[1] IN
          bugs' = Some(SubSeq(bugs[1], 1, call.index - 1)
                       \o SubSeq(bugs[1], call.index + 1, Len(bugs[1])))
    /\ consoleLog' = Append(consoleLog, "Failed to create Jira ticket:")
    /\ pendingCreate' = None
    /\ isCreatingTicket' = FALSE
    /\ UNCHANGED <<appVars, genVars, bugVars, classifyCall, callsLeft, classifyReturns,
                   ticketVars, jiraConfig, isConnected, isTesting, tickets, pendingTest,
                   userActions>>

\* createJiraTicket rejects: its catch rethrows what the try block threw
\* (bugDetector.ts:363-365), which the mock's try block never does and a
\* call of the tracker would.  The rest of handleCreateTicket is then the
\* catch and finally blocks: the error is written to the console,
\* isCreatingTicket is cleared and, within handleBulkCreateTickets, the next
\* handleCreateTicket starts.
CreateJiraTicketRejects ==
    /\ NoMicrotask
    /\ pendingCreate # None
    /\ LET call == pendingCreate[1] IN
          IF call.rest = <<>>
          THEN /\ pendingCreate' = None
               /\ isCreatingTicket' = FALSE
          ELSE /\ pendingCreate' = Some([call EXCEPT !.index = Head(call.rest),
                                                     !.rest = Tail(call.rest)])
               /\ isCreatingTicket' = TRUE
    /\ consoleLog' = Append(consoleLog, "Failed to create Jira ticket:")
    /\ UNCHANGED <<appVars, genVars, bugVars, classifyCall, callsLeft, classifyReturns,
                   ticketVars, jiraConfig, isConnected, isTesting, tickets, bugs,
                   pendingTest, userActions>>

\* JiraIntegration with a tracker call that can fail
NextTracker ==
    \/ NextJira
    \/ CreateJiraTicketRejects

SpecTracker == InitJira /\ [][NextTracker]_vars

(***************************************************************************)
(* The ReportingDashboard component (src/unnamed/part_001)                 *)
(***************************************************************************)
MaxReportTests == 10 \* length of the testCases prop of a dashboard mounted alone
MaxReportBugs == 11  \* length of its bugs prop
MaxExports == 1      \* clicks on the export buttons

\* bugs.filter(b => b[field] === value).length
CountWhere(list, field, value) == Len(SelectSeq(list, LAMBDA b : b[field] = value))

\* Variant of passRate: without Math.max
passRate_NoMax(totalBugs, totalTests) ==
    IF totalTests > 0
    THEN [num |-> 100 * totalTests - 100 * totalBugs, den |-> totalTests]
    ELSE [num |-> 0, den |-> 1]

\* const passRate = totalTests > 0
\*     ? Math.max(0, 100 - (totalBugs / totalTests) * 100) : 0
\* as the exact quotient num / den; the double the code computes is the
\* rounding of it.
passRate(totalBugs, totalTests) ==
    IF totalTests > 0
    THEN LET num == 100 * totalTests - 100 * totalBugs
         IN  [num |-> IF num > 0 THEN num ELSE 0, den |-> totalTests]
    ELSE [num |-> 0, den |-> 1]

\* Math.round(num / den) for num >= 0: the nearest integer, a half going up
MathRound(q) == (2 * q.num + q.den) \div (2 * q.den)

\* the reportData object handleExportReport builds from the props; at is
\* the reading of the clock
ReportDataOf(bugList, tcs, at) ==
    [ summary |->
        [ totalTests |-> Len(tcs),
          totalBugs |-> Len(bugList),
          passRate |-> MathRound(passRate(Len(bugList), Len(tcs))),
          criticalBugs |-> CountWhere(bugList, "severity", "critical"),
          majorBugs |-> CountWhere(bugList, "severity", "major"),
          minorBugs |-> CountWhere(bugList, "severity", "minor"),
          openBugs |-> CountWhere(bugList, "status", "open"),
          resolvedBugs |-> CountWhere(bugList, "status", "resolved") ],
      bugs |-> [ i \in 1..Len(bugList) |->
                   [ id |-> bugList[i].id, title |-> bugList[i].title,
                     severity |-> bugList[i].severity, status |-> bugList[i].status,
                     category |-> bugList[i].category, url |-> bugList[i].url,
                     createdAt |-> toISOString(bugList[i].createdAt),
                     jiraTicket |-> bugList[i].jiraTicket ] ],
      testCases |-> [ i \in 1..Len(tcs) |->
                        [ id |-> tcs[i].id, name |-> tcs[i].name,
                          framework |-> tcs[i].framework, priority |-> tcs[i].priority,
                          category |-> tcs[i].category ] ],
      generatedAt |-> toISOString(at) ]

\* Variant of HandleExportReport: the bugs exported are marked resolved
HandleExportReport_ResolvesBugs ==
    /\ appActions < MaxExports
    /\ bugs # None
    /\ reportData' = Some(ReportDataOf(bugs[1], testCases, now))
    /\ bugs' = Some([i \in 1..Len(bugs[1]) |-> [bugs[1][i] EXCEPT !.status = "resolved"]])
    /\ appActions' = appActions + 1
    /\ UNCHANGED <<genVars, bugVars, classifyVars, ticketVars, jiraConfig, isConnected,
                   isTesting, isCreatingTicket, tickets, pendingTest, pendingCreate,
                   userActions, isLoading, scrapeResult, pendingScrape, selectedFramework,
                   isGenerating, pendingGenerate, isRunning, executionLog, pendingRun>>

\* Click on an export button: handleExportReport builds reportData and hands
\* it to the browser as a download; no state of the program is assigned.
HandleExportReport ==
    /\ appActions < MaxExports
    /\ bugs # None
    /\ \E reads \in ClockReads(now, 2) :
          /\ reportData' = Some(ReportDataOf(bugs[1], testCases, reads[1]))
          /\ now' = reads[2]
    /\ appActions' = appActions + 1
    /\ UNCHANGED <<genVars, bugCall, bug, classifyVars, ticketVars, jiraVars, isLoading,
                   scrapeResult, pendingScrape, selectedFramework, isGenerating,
                   pendingGenerate, isRunning, executionLog, pendingRun>>

\* The props of a dashboard mounted alone: up to MaxReportTests test cases
\* and up to MaxReportBugs bugs of the kinds detectBugs returns
ReportTestCases == { [i \in 1..n |-> IF i % 2 = 1 THEN TestCaseA ELSE TestCaseB] :
                       n \in 0..MaxReportTests }

ReportBugs ==
    LET kinds == << generateMockVisualBugs(<<0, 0>>)[1],
                    createBugFromFailedTest(
                        Execution("tc-a", "failed", Some("Timeout waiting for element")),
                        TestCaseA, DefaultDetectionConfig, <<0, 0, 0>>, "k3f9x2a1b"),
                    generateMockPerformanceBugs(<<0, 0>>)[1] >>
    IN  { [i \in 1..n |-> kinds[((i - 1) % 3) + 1]] : n \in 0..MaxReportBugs }

InitReport ==
    /\ testCases \in ReportTestCases
    /\ bugs \in { Some(list) : list \in ReportBugs }
    /\ elements = <<>>
    /\ genConfig = [framework |-> "playwright", baseUrl |-> "https://example.com",
                    includeValidation |-> TRUE, includeNegativeTests |-> TRUE]
    /\ genOutcome = "pending"
    /\ jiraConfig = None
    /\ isConnected = FALSE
    /\ isTesting = FALSE
    /\ isCreatingTicket = FALSE
    /\ tickets = <<>>
    /\ pendingTest = None
    /\ pendingCreate = None
    /\ userActions = 0
    /\ now = 0
    /\ IdleBug
    /\ IdleClassify
    /\ IdleTicket
    /\ IdleApp

NextReport == HandleExportReport

SpecReport == InitReport /\ [][NextReport]_vars

(***************************************************************************)
(* JiraIntegration and ReportingDashboard on the same bugs                 *)
(***************************************************************************)
\* App hands its detectedBugs to both components (part_004:172-178); here
\* they are mounted on bugs and test cases that stay the same arrays
InitTriage ==
    /\ jiraConfig = Some(InitialJiraConfig)
    /\ isConnected = FALSE
    /\ isTesting = FALSE
    /\ isCreatingTicket = FALSE
    /\ tickets = <<>>
    /\ bugs \in { Some(list) : list \in BugsProps }
    /\ pendingTest = None
    /\ pendingCreate = None
    /\ userActions = 0
    /\ now = 0
    /\ elements = <<>>
    /\ genConfig = [framework |-> "playwright", baseUrl |-> "https://example.com",
                    includeValidation |-> TRUE, includeNegativeTests |-> TRUE]
    /\ genOutcome = "pending"
    /\ testCases \in TestCaseLists
    /\ IdleBug
    /\ IdleClassify
    /\ IdleTicket
    /\ IdleApp

NextTriage ==
    \/ NextJira
    \/ HandleExportReport

SpecTriage == InitTriage /\ [][NextTriage]_vars

(***************************************************************************)
(* App and its panels (part_004, part_000, TestCaseManager.tsx,            *)
(* scraper.ts).  App's scrapedElements, testCases and detectedBugs are the *)
(* variables elements, testCases and bugs; TestCaseManager's testCases and *)
(* BugDetectionLogs' bugs are set to the same arrays as App's.  The inputs *)
(* of WebScrapingPanel and the selections and filters of the panels are    *)
(* left as they are.  Tabs is not among the sources: every panel is taken  *)
(* to keep its state for as long as App is mounted.                        *)
(***************************************************************************)
MaxFailing == 1  \* executions of one run that fail: the first MaxFailing at most

\* WebScrapingPanel's config state
InitialScrapeConfig ==
    [ url |-> "https://example.com", selectors |-> <<"button", "input", "a", "form">>,
      depth |-> 1, includeHidden |-> FALSE ]

\* const mockElements of scrapePage
mockElements ==
    LET ById(id) == CHOOSE el \in ElementPool : el.id = id
    IN  << ById("1"), ById("2"),
           [ id |-> "3", type |-> "input", selector |-> "input[name=\"password\"]",
             text |-> None, attributes |-> [name |-> "password", type |-> "password"] ],
           ById("4"), ById("5") >>

\* scrapePage(config), after its delay; at is the reading of the clock.
\* Nothing in the try block throws.
scrapePage(config, at) ==
    [ url |-> config.url, elements |-> mockElements, timestamp |-> at,
      status |-> "success" ]

\* Click on Start Scraping (disabled while isLoading || !config.url):
\* handleScrape up to its await
HandleScrape ==
    /\ NoMicrotask
    /\ appActions < MaxAppActions
    /\ ~isLoading
    /\ InitialScrapeConfig.url # ""
    /\ isLoading' = TRUE
    /\ pendingScrape' = Some(InitialScrapeConfig)
    /\ appActions' = appActions + 1
    /\ UNCHANGED <<genVars, bugVars, classifyVars, ticketVars, jiraVars, scrapeResult,
                   selectedFramework, isGenerating, pendingGenerate, isRunning,
                   executionLog, pendingRun, reportData>>

\* scrapePage resolves: the rest of handleScrape, and App's
\* handleElementsScraped
ScrapePageReturns ==
    /\ NoMicrotask
    /\ pendingScrape # None
    /\ LET result == scrapePage(pendingScrape[1], now) IN
          /\ scrapeResult' = Some(result)
          /\ elements' = IF result.status = "success" THEN result.elements ELSE elements
    /\ isLoading' = FALSE
    /\ pendingScrape' = None
    /\ UNCHANGED <<genConfig, genOutcome, testCases, bugVars, classifyVars, ticketVars,
                   jiraVars, selectedFramework, isGenerating, pendingGenerate, isRunning,
                   executionLog, pendingRun, reportData, appActions>>

\* onValueChange of the Test Framework select
ChangeFramework ==
    /\ NoMicrotask
    /\ appActions < MaxAppActions
    /\ \E value \in TestFramework :
          /\ value # selectedFramework
          /\ selectedFramework' = value
    /\ appActions' = appActions + 1
    /\ UNCHANGED <<genVars, bugVars, classifyVars, ticketVars, jiraVars, isLoading,
                   scrapeResult, pendingScrape, isGenerating, pendingGenerate, isRunning,
                   executionLog, pendingRun, reportData>>

\* Click on Generate Tests (disabled while isGenerating ||
\* elements.length === 0): handleGenerateTests up to its await
HandleGenerateTests ==
    /\ NoMicrotask
    /\ appActions < MaxAppActions
    /\ ~isGenerating
    /\ Len(elements) # 0
    /\ isGenerating' = TRUE
    /\ pendingGenerate' = Some([ elements |-> elements,
                                 framework |-> selectedFramework,
                                 baseUrl |-> "https://example.com",
                                 includeValidation |-> TRUE,
                                 includeNegativeTests |-> TRUE ])
    /\ appActions' = appActions + 1
    /\ UNCHANGED <<genVars, bugVars, classifyVars, ticketVars, jiraVars, isLoading,
                   scrapeResult, pendingScrape, selectedFramework, isRunning,
                   executionLog, pendingRun, reportData>>

\* generateTestCases resolves (it awaits nothing, so this is the microtask
\* that follows the click): the rest of handleGenerateTests, and App's
\* handleTestsGenerated
GenerateTestCasesReturns ==
    /\ pendingGenerate # None
    /\ testCases' = generateTestCases(pendingGenerate[1].elements, pendingGenerate[1])
    /\ isGenerating' = FALSE
    /\ pendingGenerate' = None
    /\ UNCHANGED <<elements, genConfig, genOutcome, bugVars, classifyVars, ticketVars,
                   jiraVars, isLoading, scrapeResult, pendingScrape, selectedFramework,
                   isRunning, executionLog, pendingRun, reportData, appActions>>

\* generateMockError(testCase); pick is Math.floor(Math.random() * errors.length)
generateMockError(testCase, pick) ==
    << "Element not found: "
          \o (IF testCase.elements = <<>> THEN "undefined" ELSE testCase.elements[1]),
       "Timeout waiting for element to be visible",
       "Assertion failed: Expected \"Success\" but got \"Error\"",
       "Network request failed with status 500",
       "Element is not clickable at this point" >>[pick + 1]

generateMockScreenshot ==
    "https://via.placeholder.com/800x600/ff0000/ffffff?text=Test+Failed"

\* executeTests(testCases), after its delays.  draws[i] is what the i-th
\* iteration draws from Math.random(), at the reading of the clock.
executeTests(tcs, draws, at) ==
    [ i \in 1..Len(tcs) |->
        [ id |-> "exec-" \o ToString(at) \o "-" \o draws[i].suffix,
          testCaseId |-> tcs[i].id,
          status |-> IF draws[i].shouldFail THEN "failed" ELSE "passed",
          duration |-> draws[i].duration,
          timestamp |-> at,
          error |-> IF draws[i].shouldFail
                    THEN Some(generateMockError(tcs[i], draws[i].pick)) ELSE None,
          screenshot |-> IF draws[i].shouldFail THEN Some(generateMockScreenshot)
                         ELSE None ] ]

\* What the n iterations of one executeTests call draw: the first k of
\* them fail, with a timeout
ExecutionDraws(n) ==
    { [ i \in 1..n |-> [ shouldFail |-> i <= k, pick |-> 1, suffix |-> "k3f9x2a1b",
                         duration |-> 1000 ] ] :
        k \in { k \in 0..MaxFailing : k <= n } }

\* Click on Run Tests (disabled while isRunning || testCases.length === 0):
\* handleRunTests up to its first await.  The call keeps the testCases of
\* the render the click happened in.
HandleRunTests ==
    /\ NoMicrotask
    /\ appActions < MaxAppActions
    /\ ~isRunning
    /\ Len(testCases) # 0
    /\ isRunning' = TRUE
    /\ pendingRun' = Some(testCases)
    /\ appActions' = appActions + 1
    /\ UNCHANGED <<genVars, bugVars, classifyVars, ticketVars, jiraVars, isLoading,
                   scrapeResult, pendingScrape, selectedFramework, isGenerating,
                   pendingGenerate, executionLog, reportData>>

\* executeTests resolves: the rest of handleRunTests (setExecutions,
\* detectBugs, which awaits nothing but its own async calls, setBugs,
\* setIsRunning(false)) and App's handleBugsDetected.  A createJiraTicket
\* call under way keeps the bug of the array that is replaced.
ExecuteTestsReturns ==
    /\ NoMicrotask
    /\ pendingRun # None
    /\ \E draws \in ExecutionDraws(Len(pendingRun[1])), at \in ClockReads(now, 1) :
          LET testExecutions == executeTests(pendingRun[1], draws, at[1])
              reads == [ i \in 1..NumClockReads(testExecutions, pendingRun[1],
                                                DefaultDetectionConfig) |-> at[1] ]
              randoms == [ i \in 1..NumRandoms(testExecutions, pendingRun[1]) |->
                              draws[i].suffix ]
          IN  /\ executionLog' = testExecutions
              /\ bugs' = Some(detectBugs(testExecutions, pendingRun[1],
                                         DefaultDetectionConfig, reads, randoms))
              /\ now' = at[1]
    /\ pendingCreate' = IF pendingCreate # None /\ pendingCreate[1].detached = None
                        THEN Some([pendingCreate[1] EXCEPT !.detached = Some(bugs[1])])
                        ELSE pendingCreate
    /\ isRunning' = FALSE
    /\ pendingRun' = None
    /\ UNCHANGED <<genVars, bugCall, bug, classifyVars, ticketVars, jiraConfig, isConnected,
                   isTesting, isCreatingTicket, tickets, pendingTest, userActions,
                   isLoading, scrapeResult, pendingScrape, selectedFramework, isGenerating,
                   pendingGenerate, reportData, appActions>>

\* App as mounted: the useState initial values of App and of its panels
InitApp ==
    /\ elements = <<>>
    /\ testCases = <<>>
    /\ bugs = Some(<<>>)
    /\ genConfig = [framework |-> "playwright", baseUrl |-> "https://example.com",
                    includeValidation |-> TRUE, includeNegativeTests |-> TRUE]
    /\ genOutcome = "pending"
    /\ jiraConfig = Some(InitialJiraConfig)
    /\ isConnected = FALSE
    /\ isTesting = FALSE
    /\ isCreatingTicket = FALSE
    /\ tickets = <<>>
    /\ pendingTest = None
    /\ pendingCreate = None
    /\ userActions = 0
    /\ now = 0
    /\ IdleBug
    /\ IdleClassify
    /\ IdleTicket
    /\ IdleApp

\* an edit of the Jira config that fills in a field and clears none
FillsAField ==
    /\ jiraConfig' # jiraConfig
    /\ \A field \in {"baseUrl", "email", "apiToken", "projectKey"} :
          jiraConfig[1][field] # "" => jiraConfig'[1][field] = jiraConfig[1][field]

\* One step of App.  The user fills in the Jira config once, and the draws
\* of a createJiraTicket call are the same number.
NextApp ==
    \/ HandleScrape
    \/ ScrapePageReturns
    \/ ChangeFramework
    \/ HandleGenerateTests
    \/ GenerateTestCasesReturns
    \/ HandleRunTests
    \/ ExecuteTestsReturns
    \/ ChangeBaseUrl /\ FillsAField
    \/ ChangeEmail /\ FillsAField
    \/ ChangeApiToken /\ FillsAField
    \/ ChangeProjectKey /\ FillsAField
    \/ HandleTestConnection
    \/ TestJiraConnectionReturns
    \/ HandleCreateTicket
    \/ HandleBulkCreateTickets
    \/ \E n \in RandomInts : CreateJiraTicketResolves(<<n, n, n>>, <<now, now>>)

SpecApp == InitApp /\ [][NextApp]_vars

\* App with a tracker call that can fail
NextAppTracker ==
    \/ NextApp
    \/ CreateJiraTicketRejects

\* App with the event loop at work: the timer of every call under way
\* fires and the continuation of every settled Promise runs
FairSpecApp ==
    /\ InitApp
    /\ [][NextAppTracker]_vars
    /\ WF_vars(ScrapePageReturns)
    /\ WF_vars(GenerateTestCasesReturns)
    /\ WF_vars(ExecuteTestsReturns)
    /\ WF_vars(TestJiraConnectionReturns)
    /\ WF_vars(\/ CreateJiraTicketRejects
               \/ \E n \in RandomInts :
                     CreateJiraTicketResolves(<<n, n, n>>, <<now, now>>))

(***************************************************************************)
(* Properties of test synthesis                                            *)
(***************************************************************************)
IsWorkflowSpec(tc) == tc.id = "workflow-test-1"

PerElementSpecs == SelectSeq(testCases, LAMBDA tc : ~IsWorkflowSpec(tc))

WorkflowSpecs == SelectSeq(testCases, IsWorkflowSpec)

\* the per-element specifications whose covered ids are exactly <<id>>
SpecsOnlyFor(id) == SelectSeq(PerElementSpecs, LAMBDA tc : tc.elements = <<id>>)

CountOfType(type) == Cardinality({i \in 1..Len(elements) : elements[i].type = type})

ElementIds == {elements[i].id : i \in 1..Len(elements)}

\* C1: every button element contributes exactly one per-element
\* specification, and it is high priority, functional and covers exactly
\* that button's id.
C1_ButtonYieldsOneHighFunctionalSpec ==
    genOutcome = "resolved" =>
        \A i \in 1..Len(elements) :
            elements[i].type = "button" =>
                LET specs == SpecsOnlyFor(elements[i].id) IN
                /\ Len(specs) = 1
                /\ specs[1].priority = "high"
                /\ specs[1].category = "functional"
                /\ {specs[1].elements[k] : k \in 1..Len(specs[1].elements)} = {elements[i].id}
                /\ Cardinality({k \in 1..Len(PerElementSpecs) :
                        elements[i].id \in {PerElementSpecs[k].elements[m] :
                                               m \in 1..Len(PerElementSpecs[k].elements)}}) = 1

C1_Witness ==
    /\ genOutcome = "resolved"
    /\ \E i, j \in 1..Len(elements) :
          /\ i > 1
          /\ elements[i].type = "button"
          /\ elements[j].type = "form"

\* C2: an input element yields exactly two per-element specifications when
\* includeNegativeTests is true (fill-and-verify, then negative; both medium,
\* functional, covering only that element) and exactly one when it is false.
C2_InputYieldsTwoOrOneSpecs ==
    genOutcome = "resolved" =>
        \A i \in 1..Len(elements) :
            elements[i].type = "input" =>
                LET specs == SpecsOnlyFor(elements[i].id) IN
                /\ Len(specs) = (IF genConfig.includeNegativeTests THEN 2 ELSE 1)
                /\ specs[1].id = "input-test-" \o ToString(i - 1)
                /\ genConfig.includeNegativeTests =>
                       specs[2].id = "negative-input-test-" \o ToString(i - 1)
                /\ \A k \in 1..Len(specs) :
                       /\ specs[k].priority = "medium"
                       /\ specs[k].category = "functional"
                /\ \A k \in 1..Len(PerElementSpecs) :
                       (\E m \in 1..Len(PerElementSpecs[k].elements) :
                            PerElementSpecs[k].elements[m] = elements[i].id)
                       => PerElementSpecs[k].elements = <<elements[i].id>>

C2_Witness ==
    /\ genOutcome = "resolved"
    /\ genConfig.includeNegativeTests
    /\ \E i \in 1..Len(elements) :
          /\ i > 1
          /\ elements[i].type = "input"
          /\ Len(SpecsOnlyFor(elements[i].id)) = 2

\* C3: the output holds exactly one workflow specification if the input
\* holds at least one form (however many) and none otherwise; it is
\* integration / high priority and covers the ids of the whole input list.
C3_OneWorkflowSpecIffForm ==
    genOutcome = "resolved" =>
        /\ Len(WorkflowSpecs) = (IF CountOfType("form") >= 1 THEN 1 ELSE 0)
        /\ \A k \in 1..Len(WorkflowSpecs) :
              /\ WorkflowSpecs[k].category = "integration"
              /\ WorkflowSpecs[k].priority = "high"
              /\ WorkflowSpecs[k].elements = [i \in 1..Len(elements) |-> elements[i].id]

C3_Witness ==
    /\ genOutcome = "resolved"
    /\ CountOfType("form") = 2
    /\ Len(elements) = 3
    /\ Len(WorkflowSpecs) = 1

\* C4: select and textarea elements yield no per-element specification: the
\* number of per-element specifications is #buttons + #links + #forms +
\* #inputs * (2 if includeNegativeTests else 1), and no specification other
\* than the workflow one covers a select or textarea element.
C4_OtherKindsYieldNoSpec ==
    genOutcome = "resolved" =>
        /\ Len(PerElementSpecs) =
              CountOfType("button") + CountOfType("link") + CountOfType("form")
              + CountOfType("input") * (IF genConfig.includeNegativeTests THEN 2 ELSE 1)
        /\ \A k \in 1..Len(PerElementSpecs) :
              \A m \in 1..Len(PerElementSpecs[k].elements) :
                  \A i \in 1..Len(elements) :
                      elements[i].id = PerElementSpecs[k].elements[m]
                      => elements[i].type \notin {"select", "textarea"}

C4_Witness ==
    /\ genOutcome = "resolved"
    /\ CountOfType("select") = 1
    /\ CountOfType("textarea") = 1
    /\ CountOfType("input") = 1
    /\ Len(PerElementSpecs) >= 1

\* C5: a call with a framework other than playwright, selenium or cypress
\* ends in a configuration error: the Promise is rejected and no list of
\* specifications is returned.
C5_UnsupportedFrameworkIsFatal ==
    (genOutcome # "pending" /\ genConfig.framework \notin TestFramework)
        => genOutcome = "rejected"

\* C6: every returned specification has a non-empty set of covered element
\* ids that is a subset of the ids passed in, and carries config.framework.
C6_CoveredIdsAndFramework ==
    genOutcome = "resolved" =>
        \A k \in 1..Len(testCases) :
            /\ Len(testCases[k].elements) >= 1
            /\ {testCases[k].elements[m] : m \in 1..Len(testCases[k].elements)}
                   \subseteq ElementIds
            /\ testCases[k].framework = genConfig.framework

C6_Witness ==
    /\ genOutcome = "resolved"
    /\ genConfig.framework = "selenium"
    /\ Len(testCases) >= 3
    /\ Len(WorkflowSpecs) = 1

\* C7: an empty element list yields the empty list of specifications, with
\* no workflow specification and no error.
C7_EmptyElementsYieldEmptyList ==
    (genOutcome # "pending" /\ elements = <<>>)
        => (genOutcome = "resolved" /\ testCases = <<>>)

C7_Witness ==
    /\ genOutcome = "resolved"
    /\ elements = <<>>

(***************************************************************************)
(* Properties of defect classification                                     *)
(***************************************************************************)
\* the error text the severity is derived from: '' for an absent error
ErrorTextOfCall == OrElse(bugCall[1].execution.error, "")

MentionsCI(text, word) == Includes(ToLowerCase(text), word)

MentionsTimeoutOrNotFound ==
    MentionsCI(ErrorTextOfCall, "timeout") \/ MentionsCI(ErrorTextOfCall, "not found")

MentionsAssertionOrExpected ==
    MentionsCI(ErrorTextOfCall, "assertion") \/ MentionsCI(ErrorTextOfCall, "expected")

\* C8: a failed result whose error text contains "timeout" or "not found" in
\* any letter case gives severity critical for every specification priority,
\* also when the text contains "assertion" or "expected".
C8_TimeoutOrNotFoundIsCritical ==
    (bug # None /\ MentionsTimeoutOrNotFound) => bug[1].severity = "critical"

C8_Witness ==
    /\ bug # None
    /\ bugCall[1].execution.error = Some("Selector NOT FOUND after assertion")
    /\ bugCall[1].testCase.priority = "low"
    /\ MentionsTimeoutOrNotFound
    /\ MentionsAssertionOrExpected

\* C9: a failed result whose error text contains neither "timeout" nor "not
\* found" gives severity major exactly when the text contains "assertion" or
\* "expected" and the specification priority is high, and minor in every
\* other case, an absent error included.
C9_AssertionMajorOnlyForHighElseMinor ==
    (bug # None /\ ~MentionsTimeoutOrNotFound) =>
        /\ bug[1].severity \in {"major", "minor"}
        /\ bug[1].severity = "major" <=>
              (MentionsAssertionOrExpected /\ bugCall[1].testCase.priority = "high")
        /\ bugCall[1].execution.error = None => bug[1].severity = "minor"

C9_Witness ==
    /\ bug # None
    /\ bugCall[1].execution.error = Some("Assertion failed: expected X")
    /\ bugCall[1].testCase.priority = "medium"
    /\ bug[1].severity = "minor"

\* C10: the category of a failure-derived defect depends on the
\* specification's category only: functional -> functional, ui -> ui,
\* integration -> functional; it is never integration, performance, security
\* or usability.
C10_DefectCategoryFromTestCategory ==
    bug # None =>
        /\ bugCall[1].testCase.category = "functional" => bug[1].category = "functional"
        /\ bugCall[1].testCase.category = "ui" => bug[1].category = "ui"
        /\ bugCall[1].testCase.category = "integration" => bug[1].category = "functional"
        /\ bug[1].category \notin {"integration", "performance", "security", "usability"}

C10_Witness ==
    /\ bug # None
    /\ bugCall[1].testCase.category = "integration"
    /\ bugCall[1].testCase.priority = "medium"
    /\ bug[1].category = "functional"


(***************************************************************************)
(* Properties of detectBugs                                                *)
(***************************************************************************)
\* a bug without the fields that come from the clock or the random suffix
StripIdAndDates(b) == [f \in (DOMAIN b) \ {"id", "createdAt", "updatedAt"} |-> b[f]]

StripAll(list) == [i \in 1..Len(list) |-> StripIdAndDates(list[i])]

\* a bug without its id only
StripId(b) == [f \in (DOMAIN b) \ {"id"} |-> b[f]]

IsUnknownFailure(exec, tcs) ==
    exec.status = "failed" /\ FindTestCase(tcs, exec.testCaseId) = None

\* the executions without the failed ones that reference no test case
WithoutUnknown(executions, tcs) ==
    SelectSeq(executions, LAMBDA exec : ~IsUnknownFailure(exec, tcs))

ZeroReads(n) == [i \in 1..n |-> 0]

\* what detectBugs gives for the executions without the unknown ones
ReferenceWithoutUnknown(call) ==
    LET kept == WithoutUnknown(call.executions, call.testCases)
    IN  detectBugs(kept, call.testCases, call.config,
                   ZeroReads(NumClockReads(kept, call.testCases, call.config)),
                   [i \in 1..NumRandoms(kept, call.testCases) |-> "r"])

KnownIds(tcs) == { tcs[i].id : i \in 1..Len(tcs) }

NumProbeBugs(config) ==
    (IF config.enableVisualTesting THEN 1 ELSE 0)
    + (IF config.enablePerformanceTesting THEN 1 ELSE 0)
    + (IF config.enableAccessibilityTesting THEN 1 ELSE 0)

\* the bugs of a returned list that follow the failure-derived ones
ProbePart(call, list) ==
    SubSeq(list, Len(ResolvedFailures(call.executions, call.testCases)) + 1, Len(list))

\* C11: detectBugs never fails because of a failed result whose test case id
\* is unknown: the call returns a list, no bug of it refers to an unknown id,
\* and the list equals, in every field not drawn from the clock or the random
\* suffix, the list returned for the same batch without the unknown results.
C11_UnknownIdIsSkippedNotFatal ==
    (classifyCall # None /\ callsLeft = 0) =>
        /\ Len(classifyReturns) = 1
        /\ \A i \in 1..Len(classifyReturns[1]) :
              classifyReturns[1][i].testCaseId # None =>
                  classifyReturns[1][i].testCaseId[1] \in KnownIds(classifyCall[1].testCases)
        /\ StripAll(classifyReturns[1]) = StripAll(ReferenceWithoutUnknown(classifyCall[1]))

\* a batch where a failed result of unknown id precedes a failed one of known
\* id has been classified
C11_Witness ==
    /\ classifyCall # None
    /\ Len(classifyReturns) = 1
    /\ LET ex == classifyCall[1].executions IN
          /\ Len(ex) = 2
          /\ IsUnknownFailure(ex[1], classifyCall[1].testCases)
          /\ ex[2].status = "failed"
          /\ ex[2].testCaseId = "tc-a"
    /\ \E i \in 1..Len(classifyReturns[1]) : classifyReturns[1][i].testCaseId = Some("tc-a")

\* C12: every failed result that detectBugs passes over because its test
\* case id is unknown is recorded: once the call has returned, the console
\* holds at least one entry per such result (the returned value being the
\* list of bugs and nothing else).
C12_SkippedResultsAreLogged ==
    (classifyCall # None /\ callsLeft = 0) =>
        Len(consoleLog) >=
            Len(SelectSeq(classifyCall[1].executions,
                          LAMBDA exec : IsUnknownFailure(exec, classifyCall[1].testCases)))

\* C13: two calls of detectBugs with the same executions, test cases and
\* config return lists of the same length that agree position by position
\* in every field other than id, createdAt and updatedAt included.
C13_SecondCallEqualUpToIds ==
    Len(classifyReturns) = 2 =>
        /\ Len(classifyReturns[1]) = Len(classifyReturns[2])
        /\ \A i \in 1..Len(classifyReturns[1]) :
              StripId(classifyReturns[1][i]) = StripId(classifyReturns[2][i])

\* C14: a performance bug is in the returned list only if the load time of
\* the finding exceeds config.thresholds.loadTime.
C14_PerformanceBugOnlyAboveThreshold ==
    \A k \in 1..Len(classifyReturns) :
        (\E i \in 1..Len(classifyReturns[k]) : classifyReturns[k][i].category = "performance")
            => MockLoadTimeMs > classifyCall[1].config.thresholds.loadTime

\* C15: the bugs that follow the failure-derived ones carry no testCaseId
\* and are exactly, in this order, a (ui, minor) one if enableVisualTesting,
\* a (performance, major) one if enablePerformanceTesting and a (usability,
\* major) one if enableAccessibilityTesting, whatever the executions are.
C15_ProbeBugsFixedPairingNoTestCase ==
    \A k \in 1..Len(classifyReturns) :
        LET config == classifyCall[1].config
            probes == ProbePart(classifyCall[1], classifyReturns[k])
        IN  [i \in 1..Len(probes) |->
                <<probes[i].category, probes[i].severity, probes[i].testCaseId>>]
            = (IF config.enableVisualTesting THEN << <<"ui", "minor", None>> >> ELSE <<>>)
              \o (IF config.enablePerformanceTesting
                  THEN << <<"performance", "major", None>> >> ELSE <<>>)
              \o (IF config.enableAccessibilityTesting
                  THEN << <<"usability", "major", None>> >> ELSE <<>>)

\* a batch with a failed result of a known test case has been classified
\* with the performance probe on and the visual probe off
C15_Witness ==
    /\ classifyCall # None
    /\ Len(classifyReturns) = 1
    /\ classifyCall[1].config.enablePerformanceTesting
    /\ ~classifyCall[1].config.enableVisualTesting
    /\ Len(ResolvedFailures(classifyCall[1].executions, classifyCall[1].testCases)) = 1
    /\ Len(ProbePart(classifyCall[1], classifyReturns[1])) >= 1

\* C16: the returned list holds one bug per failed result of known test case
\* id, in the order of the results and for that result's test case and
\* error, followed by the probe bugs; its length is the number of those
\* results plus the number of enabled probes.
C16_OneBugPerKnownFailureThenProbes ==
    \A k \in 1..Len(classifyReturns) :
        LET call == classifyCall[1]
            returned == classifyReturns[k]
            failures == ResolvedFailures(call.executions, call.testCases)
        IN  /\ Len(returned) = Len(failures) + NumProbeBugs(call.config)
            /\ \A i \in 1..Len(returned) :
                  IF i <= Len(failures)
                  THEN /\ returned[i].testCaseId = Some(failures[i].testCaseId)
                       /\ returned[i].actualResult =
                              OrElse(failures[i].error, "Test failed with unknown error")
                  ELSE returned[i].testCaseId = None

\* two failed results of the same test case have been classified with a
\* probe on, giving two bugs for that test case
C16_Witness ==
    /\ classifyCall # None
    /\ Len(classifyReturns) = 1
    /\ LET ex == classifyCall[1].executions IN
          /\ Len(ex) = 2
          /\ ex[1].status = "failed" /\ ex[2].status = "failed"
          /\ ex[1].testCaseId = "tc-a" /\ ex[2].testCaseId = "tc-a"
          /\ ex[1].error # ex[2].error
    /\ NumProbeBugs(classifyCall[1].config) >= 1
    /\ Len(classifyReturns[1]) >= 3
    /\ classifyReturns[1][1].testCaseId = Some("tc-a")
    /\ classifyReturns[1][2].testCaseId = Some("tc-a")


(***************************************************************************)
(* Properties of the Jira functions                                        *)
(***************************************************************************)
\* what makes each field of a JiraConfig unacceptable
BadBaseUrl(config) == config.baseUrl = "" \/ ~isValidUrl(config.baseUrl)
BadEmail(config) == config.email = "" \/ ~isValidEmail(config.email)
BadApiToken(config) == config.apiToken = ""
BadProjectKey(config) == config.projectKey = ""
BadIssueType(config) == config.issueType = ""

One(b) == IF b THEN 1 ELSE 0

NumBadFields(config) ==
    One(BadBaseUrl(config)) + One(BadEmail(config)) + One(BadApiToken(config))
    + One(BadProjectKey(config)) + One(BadIssueType(config))

BaseUrlErrors == {"Base URL is required", "Base URL must be a valid URL"}
EmailErrors == {"Email is required", "Email must be a valid email address"}

CountIn(errors, texts) == Cardinality({ i \in 1..Len(errors) : errors[i] \in texts })

\* C19: validateJiraConfig reports every unacceptable field: the returned
\* list has exactly one entry for each of baseUrl, email, apiToken,
\* projectKey and issueType that is empty or malformed and none for the
\* others, so it has at least two entries when baseUrl and apiToken are
\* empty and is empty exactly when all five fields are acceptable.
C19_OneErrorPerBadField ==
    (jiraConfig # None /\ configErrors # None) =>
        LET config == jiraConfig[1]
            errors == configErrors[1]
        IN  /\ Len(errors) = NumBadFields(config)
            /\ CountIn(errors, BaseUrlErrors) = One(BadBaseUrl(config))
            /\ CountIn(errors, EmailErrors) = One(BadEmail(config))
            /\ CountIn(errors, {"API Token is required"}) = One(BadApiToken(config))
            /\ CountIn(errors, {"Project Key is required"}) = One(BadProjectKey(config))
            /\ CountIn(errors, {"Issue Type is required"}) = One(BadIssueType(config))
            /\ (config.baseUrl = "" /\ config.apiToken = "") => Len(errors) >= 2
            /\ (errors = <<>>) <=> (NumBadFields(config) = 0)

\* a config with empty baseUrl, malformed email and empty apiToken has been
\* validated and three errors were returned
C19_Witness ==
    /\ jiraConfig # None
    /\ configErrors # None
    /\ jiraConfig[1].baseUrl = ""
    /\ jiraConfig[1].email = "qa@example"
    /\ jiraConfig[1].apiToken = ""
    /\ jiraConfig[1].projectKey = "QA"
    /\ jiraConfig[1].issueType = "Bug"
    /\ Len(configErrors[1]) = 3


BugSeverities == {"critical", "major", "minor", "trivial"}

\* C17: mapBugSeverityToJiraPriority maps critical to Blocker, major to
\* High, minor to Medium and trivial to Low, and the ticket createJiraTicket
\* returns for a bug has the priority of the bug's severity by that table
\* and the bug's title as its summary.
C17_PriorityTableAndTicketFields ==
    /\ [sev \in BugSeverities |-> mapBugSeverityToJiraPriority(sev)]
          = [sev \in BugSeverities |->
                CASE sev = "critical" -> "Blocker"
                  [] sev = "major" -> "High"
                  [] sev = "minor" -> "Medium"
                  [] sev = "trivial" -> "Low"]
    /\ ticket # None =>
          /\ ticket[1].summary = ticketCall[1].bug.title
          /\ ticket[1].priority =
                (CASE ticketCall[1].bug.severity = "critical" -> "Blocker"
                   [] ticketCall[1].bug.severity = "major" -> "High"
                   [] ticketCall[1].bug.severity = "minor" -> "Medium"
                   [] ticketCall[1].bug.severity = "trivial" -> "Low")

\* a ticket of priority Low has been returned for a bug of severity trivial
C17_Witness ==
    /\ ticketCall # None
    /\ ticket # None
    /\ ticketCall[1].bug.severity = "trivial"
    /\ ticket[1].priority = "Low"
    /\ ticket[1].summary = "Button alignment issue on mobile"

\* C20: createJiraTicket called for a bug that has a jiraTicket already
\* returns no new ticket.
C20_NoTicketForBugWithTicket ==
    (ticketCall # None /\ ticketCall[1].bug.jiraTicket # None) => ticket = None


\* C18: no ticket is created under an invalid config: whenever a
\* createJiraTicket call adds a ticket, validateJiraConfig returns no error
\* for the config the call was made with.
C18_TicketsOnlyUnderValidConfig ==
    [][Len(tickets') > Len(tickets) =>
          validateJiraConfig(pendingCreate[1].config) = <<>>]_vars


(***************************************************************************)
(* Further properties of test synthesis                                    *)
(***************************************************************************)
\* the element a link specification covers
LinkElementOf(tc) == CHOOSE el \in {elements[i] : i \in 1..Len(elements)} : tc.elements = <<el.id>>

\* the URL the generated code expects after the click: the last argument
\* of the link template
ExpectedUrlOf(tc) == tc.code[1].args[Len(tc.code[1].args)]

EndsWith(s, suffix) ==
    /\ Len(s) >= Len(suffix)
    /\ SubSeq(s, Len(s) - Len(suffix) + 1, Len(s)) = suffix

\* C24: the specification generated for a link is functional and of low
\* priority, and the URL it expects after the click is the href itself
\* when the href is an absolute URL and the href resolved against baseUrl
\* (a URL that begins with baseUrl and ends with the href) when it is
\* relative, with or without a leading '/'.
C24_LinkExpectsResolvedHref ==
    (genOutcome = "resolved" /\ genConfig.framework \in TestFramework) =>
        \A k \in 1..Len(testCases) :
            StartsWith(testCases[k].id, "link-test-") =>
                LET href == LinkElementOf(testCases[k]).attributes.href
                    expected == ExpectedUrlOf(testCases[k])
                IN  /\ testCases[k].priority = "low"
                    /\ testCases[k].category = "functional"
                    /\ IF isValidUrl(href)
                       THEN expected = href
                       ELSE /\ StartsWith(expected, genConfig.baseUrl)
                            /\ EndsWith(expected, href)

\* the tag of a per-element specification: its id up to the index
KindTags ==
    [button |-> <<"btn-test-">>,
     input |-> <<"input-test-", "negative-input-test-">>,
     link |-> <<"link-test-">>,
     form |-> <<"form-test-">>]

\* C25: the list generateTestCases resolves with is a function of its
\* elements and config alone, and the id of every per-element
\* specification is its kind tag followed by the 0-based index, in the
\* input, of the element it covers.
C25_IdsFromIndexAndKind ==
    genOutcome = "resolved" =>
        /\ testCases = generateTestCases(elements, genConfig)
        /\ now = 0
        /\ \A k \in 1..Len(PerElementSpecs) :
              \E i \in 1..Len(elements) :
                 /\ elements[i].type \in DOMAIN KindTags
                 /\ PerElementSpecs[k].elements = <<elements[i].id>>
                 /\ \E t \in 1..Len(KindTags[elements[i].type]) :
                       PerElementSpecs[k].id =
                           KindTags[elements[i].type][t] \o ToString(i - 1)

\* a list whose third element is an input has been synthesized with
\* negative tests: the ids of its two specifications end in 2
C25_Witness ==
    /\ genOutcome = "resolved"
    /\ genConfig.includeNegativeTests
    /\ Len(elements) = 3
    /\ elements[1].type = "input"
    /\ elements[3].type = "input"
    /\ \E k \in 1..Len(testCases) : testCases[k].id = "negative-input-test-2"

\* C27: the ids of the specifications of one output are pairwise distinct.
C27_SpecificationIdsDistinct ==
    genOutcome = "resolved" =>
        \A k, m \in 1..Len(testCases) : k # m => testCases[k].id # testCases[m].id

\* a list with two inputs and a form has been synthesized with negative
\* tests: six specifications, the workflow one among them
C27_Witness ==
    /\ genOutcome = "resolved"
    /\ genConfig.includeNegativeTests
    /\ CountOfType("input") = 2
    /\ CountOfType("form") = 1
    /\ Len(testCases) = 6
    /\ Len(WorkflowSpecs) = 1

(***************************************************************************)
(* Further properties of detectBugs and createJiraTicket                   *)
(***************************************************************************)
\* C28: every bug detectBugs returns has status open, no jiraTicket and a
\* severity among critical, major and minor, so the numbers of critical,
\* major and minor bugs of a returned list add up to its length.
C28_ReturnedBugsOpenUnticketedNotTrivial ==
    \A k \in 1..Len(classifyReturns) :
        LET list == classifyReturns[k]
            CountOf(sev) == Cardinality({ i \in 1..Len(list) : list[i].severity = sev })
        IN  /\ \A i \in 1..Len(list) :
                  /\ list[i].status = "open"
                  /\ list[i].jiraTicket = None
                  /\ list[i].severity \in {"critical", "major", "minor"}
            /\ CountOf("critical") + CountOf("major") + CountOf("minor") = Len(list)

\* a list with a critical, a minor and a major bug has been returned: a
\* failure with a timeout, one without error text and the performance probe
C28_Witness ==
    /\ Len(classifyReturns) = 1
    /\ \E i, j, m \in 1..Len(classifyReturns[1]) :
          /\ classifyReturns[1][i].severity = "critical"
          /\ classifyReturns[1][j].severity = "minor"
          /\ classifyReturns[1][j].actualResult = "Test failed with unknown error"
          /\ classifyReturns[1][m].severity = "major"

\* C29: the url of a ticket createJiraTicket returns is the config's
\* baseUrl, '/browse/' and the ticket's own key, and the key begins with
\* the config's projectKey.
C29_TicketUrlNamesOwnKey ==
    ticket # None =>
        /\ ticket[1].url = ticketCall[1].config.baseUrl \o "/browse/" \o ticket[1].key
        /\ StartsWith(ticket[1].key, ticketCall[1].config.projectKey \o "-")


(***************************************************************************)
(* Properties of the ReportingDashboard                                    *)
(***************************************************************************)
\* C23: for the props of every dashboard, passRate is
\* max(0, 100 - (totalBugs / totalTests) * 100) when totalTests > 0 and 0
\* otherwise; it lies within 0..100, is 0 whenever totalBugs >= totalTests,
\* and is 70 for 10 test cases and 3 bugs (exported as 70).
C23_PassRateEstimate ==
    LET totalTests == Len(testCases)
        totalBugs == Len(bugs[1])
        rate == passRate(totalBugs, totalTests)
        \* 100 - (totalBugs / totalTests) * 100, times totalTests
        scaled == 100 * totalTests - 100 * totalBugs
    IN  /\ rate.den > 0
        /\ totalTests > 0 =>
              rate.num * totalTests = (IF scaled > 0 THEN scaled ELSE 0) * rate.den
        /\ totalTests = 0 => rate.num = 0
        /\ 0 <= rate.num /\ rate.num <= 100 * rate.den
        /\ totalBugs >= totalTests => rate.num = 0
        /\ (totalTests = 10 /\ totalBugs = 3) => rate.num = 70 * rate.den
        /\ reportData # None =>
              /\ reportData[1].summary.passRate \in 0..100
              /\ (totalTests = 10 /\ totalBugs = 3) => reportData[1].summary.passRate = 70

\* a report of 10 test cases and 3 bugs has been exported with passRate 70
C23_Witness ==
    /\ reportData # None
    /\ Len(testCases) = 10
    /\ Len(bugs[1]) = 3
    /\ reportData[1].summary.passRate = 70


(***************************************************************************)
(* Properties of a failing tracker call                                    *)
(***************************************************************************)
\* C21: when createJiraTicket fails, the bug it was called for stays in the
\* bugs with status open and without jiraTicket, no bug changes, no ticket
\* is added to the tickets, and once the handler is done the Create button
\* of that bug is shown and enabled again.
C21_FailedCallKeepsBug ==
    [][(pendingCreate # None /\ Len(consoleLog') > Len(consoleLog)
        /\ consoleLog'[Len(consoleLog')] = "Failed to create Jira ticket:") =>
          LET index == pendingCreate[1].index
          IN  /\ bugs' = bugs
              /\ bugs'[1][index].status = "open"
              /\ bugs'[1][index].jiraTicket = None
              /\ tickets' = tickets
              /\ pendingCreate' = None =>
                    /\ ~isCreatingTicket'
                    /\ Len(bugs'[1]) > 0
                    /\ isConnected']_vars

\* a createJiraTicket call has failed, and a later call for the same bug
\* is under way
C21_Witness ==
    /\ consoleLog # <<>>
    /\ consoleLog[Len(consoleLog)] = "Failed to create Jira ticket:"
    /\ tickets = <<>>
    /\ pendingCreate # None
    /\ pendingCreate[1].index = 1
    /\ pendingCreate[1].rest = <<>>
    /\ bugs[1][1].jiraTicket = None
    /\ bugs[1][1].status = "open"


(***************************************************************************)
(* What creating a ticket and exporting a report leave alone               *)
(***************************************************************************)
\* C22: no step changes the severity, category or status of a bug; a step
\* that adds a ticket assigns the jiraTicket of the bug the call was made
\* for and changes nothing else of any bug, and a step that exports a
\* report changes no bug and no test case.
C22_SeverityAndCategoryKept ==
    [][/\ Len(bugs'[1]) = Len(bugs[1])
       /\ \A i \in 1..Len(bugs[1]) :
             /\ bugs'[1][i].severity = bugs[1][i].severity
             /\ bugs'[1][i].category = bugs[1][i].category
             /\ bugs'[1][i].status = bugs[1][i].status
       /\ Len(tickets') > Len(tickets) =>
             /\ bugs' = Some([bugs[1] EXCEPT ![pendingCreate[1].index].jiraTicket =
                                                  bugs'[1][pendingCreate[1].index].jiraTicket])
             /\ bugs'[1][pendingCreate[1].index].jiraTicket
                   = Some(tickets'[Len(tickets')].key)
       /\ Len(tickets') = Len(tickets) => bugs' = bugs
       /\ reportData' # reportData => (bugs' = bugs /\ testCases' = testCases)
       /\ testCases' = testCases]_vars

\* a ticket has been created for the second bug, and the report exported
\* afterwards lists that bug with its ticket and the severity it had
C22_Witness ==
    /\ Len(tickets) = 1
    /\ Len(bugs[1]) = 2
    /\ bugs[1][1].jiraTicket = None
    /\ bugs[1][2].jiraTicket = Some(tickets[1].key)
    /\ reportData # None
    /\ reportData[1].bugs[2].jiraTicket = Some(tickets[1].key)
    /\ reportData[1].bugs[2].severity = "minor"
    /\ reportData[1].summary.totalTests = 2


(***************************************************************************)
(* Properties of App                                                       *)
(***************************************************************************)
\* C26: in every state of App, each bug that has a testCaseId names a test
\* case of the current testCases and carries the title and category that
\* test case gives a bug, and each ticket of the tickets is the jiraTicket
\* of a bug of the current bugs.
C26_OneGeneration ==
    /\ \A i \in 1..Len(bugs[1]) :
          bugs[1][i].testCaseId # None =>
             \E j \in 1..Len(testCases) :
                /\ testCases[j].id = bugs[1][i].testCaseId[1]
                /\ bugs[1][i].title = "Test Failure: " \o testCases[j].name
                /\ bugs[1][i].category = mapTestCategoryToBugCategory(testCases[j].category)
    /\ \A t \in 1..Len(tickets) :
          \E i \in 1..Len(bugs[1]) : bugs[1][i].jiraTicket = Some(tickets[t].key)


\* C30: a busy flag is true exactly while its call is under way, and a
\* flag that is true is false again later: each of isRunning, isGenerating,
\* isTesting and isCreatingTicket is false again and again.  While
\* isRunning is true no handleRunTests call starts: the call under way
\* stays the same until it ends.
C30_BusyFlagsCleared ==
    /\ []<>(~isRunning)
    /\ []<>(~isGenerating)
    /\ []<>(~isTesting)
    /\ []<>(~isCreatingTicket)
    /\ [][/\ isRunning <=> pendingRun # None
          /\ isRunning' <=> pendingRun' # None
          /\ isGenerating' <=> pendingGenerate' # None
          /\ isTesting' <=> pendingTest' # None
          /\ isCreatingTicket' <=> pendingCreate' # None
          /\ isRunning =>
                /\ appActions' > appActions => pendingRun' = pendingRun
                /\ pendingRun' # pendingRun => (pendingRun' = None /\ ~isRunning')]_vars

\* each of the four calls has been made and has ended, the run twice and
\* the tracker call once with a failure and once with a ticket, and all
\* four flags are false
C30_Witness ==
    /\ ~isRunning /\ ~isGenerating /\ ~isTesting /\ ~isCreatingTicket
    /\ testCases # <<>>
    /\ executionLog # <<>>
    /\ isConnected
    /\ Len(tickets) = 1
    /\ \E i \in 1..Len(consoleLog) : consoleLog[i] = "Failed to create Jira ticket:"
    /\ appActions = 4
    /\ pendingRun = None /\ pendingGenerate = None /\ pendingTest = None
    /\ pendingCreate = None

=============================================================================
